---- MODULE Spec2Model ----
(***************************************************************************)
(* Bookmark / favorites reconciliation of the Logseqer plugin:             *)
(* LogseqerPlugin.syncSettings, syncLogseqToObsidian, syncObsidianToLogseq,*)
(* BookmarkSyncModal and SyncResolutionModal.                              *)
(*                                                                         *)
(* Text (the Logseq config.edn, page names, file paths) is modelled as a   *)
(* sequence of one-character strings, so that the regular expressions and  *)
(* the string operations of the source are computed character by           *)
(* character.                                                              *)
(***************************************************************************)
EXTENDS Naturals, Sequences, FiniteSets, TLC

----------------------------------------------------------------------------
(* Characters.                                                             *)

QUOTE == "\""
NL == "\n"
SP == " "

\* The characters of the model in ascending UTF-16 code unit order, which is
\* the order Array.prototype.sort() compares strings by.
CodeOrder ==
  << "\n", " ", "\"", "$", "&", "-", ".", "/", "1", "2", "3", ":", ";",
     "A", "D", "E", "G", "I", "L", "N", "O", "R", "T", "W", "[", "]", "_",
     "a", "b", "c", "d", "e", "f", "g", "i", "j", "k", "l", "m", "n", "o", "p",
     "r", "s", "t", "u", "v", "w", "x", "y", "{", "}" >>

CodeOf ==
  [c \in {CodeOrder[i] : i \in 1..Len(CodeOrder)} |->
     CHOOSE i \in 1..Len(CodeOrder) : CodeOrder[i] = c]

Code(c) == CodeOf[c]

\* \s of a JavaScript regular expression and the characters trim() removes.
IsWs(c) == c \in {SP, NL}

----------------------------------------------------------------------------
(* Generic sequence helpers.                                               *)

\* s.slice(from - 1), 1-based: the characters from position `from` on.
From(s, from) == SubSeq(s, from, Len(s))

\* Position of the first c at or after position i; 0 when there is none
\* (indexOf, shifted to 1-based positions).
RECURSIVE FirstIdx(_, _, _)
FirstIdx(s, i, c) ==
  IF i > Len(s) THEN 0
  ELSE IF s[i] = c THEN i
  ELSE FirstIdx(s, i + 1, c)

\* Array.prototype.includes
Includes(arr, x) == \E k \in 1..Len(arr) : arr[k] = x

\* new Set(array): insertion order, first occurrence kept.
RECURSIVE Dedup(_)
Dedup(arr) ==
  IF arr = <<>> THEN <<>>
  ELSE LET init == Dedup(SubSeq(arr, 1, Len(arr) - 1))
           x == arr[Len(arr)]
       IN IF Includes(init, x) THEN init ELSE Append(init, x)

\* Set.prototype.add / Set.prototype.delete on an insertion-ordered set.
SetAdd(set, x) == IF Includes(set, x) THEN set ELSE Append(set, x)
SetDelete(set, x) == SelectSeq(set, LAMBDA y : y # x)

Range(s) == {s[k] : k \in 1..Len(s)}

\* Comparison of two strings by UTF-16 code units (the default comparator of
\* Array.prototype.sort()).
RECURSIVE StrLess(_, _)
StrLess(s, t) ==
  IF t = <<>> THEN FALSE
  ELSE IF s = <<>> THEN TRUE
  ELSE IF s[1] # t[1] THEN Code(s[1]) < Code(t[1])
  ELSE StrLess(Tail(s), Tail(t))

\* x put into the ascending array `sorted`, after the elements not above it.
RECURSIVE Insert(_, _)
Insert(sorted, x) ==
  IF sorted = <<>> THEN <<x>>
  ELSE IF StrLess(x, sorted[1]) THEN <<x>> \o sorted
  ELSE <<sorted[1]>> \o Insert(Tail(sorted), x)

\* Array.prototype.sort() without a comparator: ascending, stable.
RECURSIVE Sort(_)
Sort(arr) ==
  IF arr = <<>> THEN <<>>
  ELSE Insert(Sort(SubSeq(arr, 1, Len(arr) - 1)), arr[Len(arr)])

\* arr.join(sep)
RECURSIVE Join(_, _)
Join(arr, sep) ==
  IF arr = <<>> THEN <<>>
  ELSE IF Len(arr) = 1 THEN arr[1]
  ELSE arr[1] \o sep \o Join(Tail(arr), sep)

----------------------------------------------------------------------------
(* The favorites of the Logseq config text.                                *)

Str_favorites == <<":", "f", "a", "v", "o", "r", "i", "t", "e", "s">>

\* Does the literal `lit` stand in `text` at position i ?
LitAt(text, i, lit) ==
  /\ i + Len(lit) - 1 <= Len(text)
  /\ \A k \in 1..Len(lit) : text[i + k - 1] = lit[k]

\* First position at or after i that holds no white space (Len + 1 when the
\* rest is white space): the greedy \s* of favoritesRegex.
RECURSIVE SkipWs(_, _)
SkipWs(text, i) ==
  IF i <= Len(text) /\ IsWs(text[i]) THEN SkipWs(text, i + 1) ELSE i

\* favoritesRegex = /:favorites\s*\[([^\]]*)\]/ tried at position i:
\* the position of the closing bracket, or 0 when it does not match there.
favoritesRegexAt(text, i) ==
  IF ~LitAt(text, i, Str_favorites) THEN 0
  ELSE LET open == SkipWs(text, i + Len(Str_favorites))
       IN IF open <= Len(text) /\ text[open] = "["
            THEN FirstIdx(text, open + 1, "]")
            ELSE 0

\* configContent.match(favoritesRegex): the leftmost match. `index` is the
\* start of the match, `last` the position of its closing bracket and
\* `group1` the captured text between the brackets (match[1]).
NoMatch == [found |-> FALSE, index |-> 0, last |-> 0, group1 |-> <<>>]

\* The first position at or after i where favoritesRegex matches; 0 if none.
RECURSIVE favoritesRegexFrom(_, _)
favoritesRegexFrom(text, i) ==
  IF i > Len(text) THEN 0
  ELSE IF favoritesRegexAt(text, i) # 0 THEN i
  ELSE favoritesRegexFrom(text, i + 1)

favoritesRegexMatch(text) ==
  LET i == favoritesRegexFrom(text, 1)
      close == favoritesRegexAt(text, i)
      open == SkipWs(text, i + Len(Str_favorites))
  IN IF i # 0
       THEN [found |-> TRUE, index |-> i, last |-> close,
             group1 |-> SubSeq(text, open + 1, close - 1)]
       ELSE NoMatch

\* favoritesStr.match(/"([^"]+)"/g)?.map(s => s.replace(/"/g, '')) || []
\* scanned from position i: every stretch quote, one or more characters that
\* are no quote, quote, from left to right, without its quotes.
RECURSIVE QuotedNamesFrom(_, _)
QuotedNamesFrom(str, i) ==
  LET q == FirstIdx(str, i, QUOTE)
  IN IF q = 0 THEN <<>>
     ELSE LET r == FirstIdx(str, q + 1, QUOTE)
          IN IF r = 0 THEN <<>>
             ELSE IF r = q + 1 THEN QuotedNamesFrom(str, q + 1)
             ELSE <<SubSeq(str, q + 1, r - 1)>> \o QuotedNamesFrom(str, r + 1)

QuotedNames(str) == QuotedNamesFrom(str, 1)

\* match ? match[1].match(...)... || [] : []  -- the names of the favorites
\* key of a config text, in text order (duplicates kept).
existingFavorites(text) ==
  LET match == favoritesRegexMatch(text)
  IN IF match.found THEN QuotedNames(match.group1) ELSE <<>>

\* The replacement patterns of String.prototype.replace(regex, string):
\* $$ is a dollar, $& the matched text, $` the text before the match, $' the
\* text after it, $1 and $01 the first capture group; any other $ is literal.
RECURSIVE GetSubstitution(_, _, _, _, _)
GetSubstitution(repl, matched, before, after, group1) ==
  IF repl = <<>> THEN <<>>
  ELSE IF repl[1] # "$" \/ Len(repl) = 1
    THEN <<repl[1]>> \o GetSubstitution(Tail(repl), matched, before, after, group1)
  ELSE LET rest2 == From(repl, 3)
           rest3 == From(repl, 4)
       IN CASE repl[2] = "$" ->
                 <<"$">> \o GetSubstitution(rest2, matched, before, after, group1)
            [] repl[2] = "&" ->
                 matched \o GetSubstitution(rest2, matched, before, after, group1)
            [] repl[2] = "`" ->
                 before \o GetSubstitution(rest2, matched, before, after, group1)
            [] repl[2] = "'" ->
                 after \o GetSubstitution(rest2, matched, before, after, group1)
            [] repl[2] = "1" ->
                 group1 \o GetSubstitution(rest2, matched, before, after, group1)
            [] repl[2] = "0" /\ Len(repl) >= 3 /\ repl[3] = "1" ->
                 group1 \o GetSubstitution(rest3, matched, before, after, group1)
            [] OTHER ->
                 <<"$">> \o GetSubstitution(Tail(repl), matched, before, after, group1)

\* configContent.replace(favoritesRegex, repl): the first match replaced.
ReplaceFavorites(text, repl) ==
  LET match == favoritesRegexMatch(text)
      before == SubSeq(text, 1, match.index - 1)
      matched == SubSeq(text, match.index, match.last)
      after == From(text, match.last + 1)
  IN IF match.found
       THEN before \o GetSubstitution(repl, matched, before, after, match.group1) \o after
       ELSE text

\* configContent.trim().endsWith('}')
RECURSIVE TrimEndsWithBrace(_)
TrimEndsWithBrace(text) ==
  IF text = <<>> THEN FALSE
  ELSE IF IsWs(text[Len(text)]) THEN TrimEndsWithBrace(SubSeq(text, 1, Len(text) - 1))
  ELSE text[Len(text)] = "}"

\* sortedMerged.map(name => `"${name}"`).join(' ')
RECURSIVE favoritesArray(_)
favoritesArray(names) ==
  IF names = <<>> THEN <<>>
  ELSE <<QUOTE>> \o names[1] \o <<QUOTE>>
       \o (IF Len(names) = 1 THEN <<>> ELSE <<SP>> \o favoritesArray(Tail(names)))

\* `:favorites [${favoritesArray}]`
FavoritesText(names) == Str_favorites \o <<SP, "[">> \o favoritesArray(names) \o <<"]">>

\* The merge of BookmarkSyncModal.executeSync and of the confirm callback of
\* syncObsidianToLogseq: new Set([...currentExisting, ...toAdd]), sorted.
sortedMerged(text, toAdd) == Sort(Dedup(existingFavorites(text) \o toAdd))

\* The config text written back: the favorites span replaced when the key is
\* matched; else the key put before a final closing brace, or at the end.
WriteFavorites(text, toAdd) ==
  LET match == favoritesRegexMatch(text)
      fav == FavoritesText(sortedMerged(text, toAdd))
  IN IF match.found THEN ReplaceFavorites(text, fav)
     ELSE IF TrimEndsWithBrace(text)
       THEN SubSeq(text, 1, Len(text) - 1) \o <<SP>> \o fav \o <<NL, "}">>
       ELSE text \o <<NL>> \o fav

----------------------------------------------------------------------------
(* The vault: markdown files, the bookmark store, the Logseq config.       *)

VARIABLES
  files,        \* vault.getMarkdownFiles(): [path, basename], enumeration order
  bookmarks,    \* items of <configDir>/bookmarks.json: [type, path]
  config,       \* text of <logseqFolder>/config.edn
  direction,    \* settings.bookmarkSyncDirection
  bsm,          \* the BookmarkSyncModal
  srm,          \* the SyncResolutionModal
  ccm,          \* the CustomConfirmationModal of syncObsidianToLogseq
  last,         \* what the last sync handler did (notices, counts, writes)
  ops,          \* number of sync handlers run so far
  root,         \* the other keys of the root object of bookmarks.json
  env,          \* what the adapter does with the two stores (faults)
  contents,     \* contents[k]: the text of files[k] (vault check)
  folders,      \* the folder paths of the vault (vault check)
  vcm,          \* the VaultCheckResolutionModal
  io,           \* the vault operations and counts of the last applyFixes()
  settings,     \* the plugin settings that enable the checks of the scan
  configDir,    \* app.json, daily-notes.json and the daily notes plugin options
  runs,         \* the applyFixes() calls that are suspended at an await
  commands,     \* the ids of the commands the plugin has registered
  inject        \* the retry chain of updateBacklinkQuery and the view it works on

\* The state of the bookmark sync.
syncVars == <<files, bookmarks, config, direction, bsm, srm, ccm, last, ops>>

\* The state the bookmark sync handlers do not touch.
restVars == <<root, env, contents, folders, vcm, io, settings, configDir, runs,
              commands, inject>>

\* The state of the scan settings and of the suspended calls.
checkVars == <<settings, configDir, runs, commands, inject>>

vars == <<files, bookmarks, config, direction, bsm, srm, ccm, last, ops,
          root, env, contents, folders, vcm, io, settings, configDir, runs,
          commands, inject>>

\* Page names.
Nx == <<"x">>
Ny == <<"y">>
Na == <<"a">>
Nb == <<"b">>
Ndup == <<"d", "u", "p">>
Ncost == <<"$", "1">>
Npage1 == <<"p", "a", "g", "e", "1">>
Npage2 == <<"p", "a", "g", "e", "2">>
Npage3 == <<"p", "a", "g", "e", "3">>

Str_pages == <<"p", "a", "g", "e", "s">>
Str_notes == <<"n", "o", "t", "e", "s">>
Str_md == <<".", "m", "d">>

\* `${folderPath}/${name}.md`
PathOf(folderPath, name) == folderPath \o <<"/">> \o name \o Str_md

\* A TFile: its path and its basename (the file name without extension).
TFile(folderPath, name) == [path |-> PathOf(folderPath, name), basename |-> name]

\* A variant of FileItem that stores the entry as a folder bookmark.
FileItem_Folder(path) == [type |-> "folder", path |-> path]

\* A bookmark item { type: 'file', ctime: Date.now(), path }.
FileItem(path) == [type |-> "file", path |-> path]

\* this.app.fileManager.getNewFileParent("").path
NewFileParent == Str_pages

\* adapter.exists(path) / vault.getAbstractFileByPath(path) instanceof TFile
Exists(fs, path) == \E k \in 1..Len(fs) : fs[k].path = path

FileAt(fs, path) == fs[CHOOSE k \in 1..Len(fs) : fs[k].path = path]

\* A variant of fileMap that keeps one file per basename (the map set by
\* basename, without the array of same-named files).
fileMap_FirstOnly(fs, pageName) ==
  LET all == SelectSeq(fs, LAMBDA f : f.basename = pageName)
  IN IF all = <<>> THEN <<>> ELSE <<all[1]>>

\* fileMap.get(pageName) || []: the files with that basename, in the order
\* the loop over getMarkdownFiles() pushed them.
fileMap(fs, pageName) == SelectSeq(fs, LAMBDA f : f.basename = pageName)

\* A variant of existingPaths that takes no path of the store as existing.
existingPaths_None(items) == {}

\* bookmarkContent.items.map(item => item.path || '').filter(p => p.length > 0)
existingPaths(items) == {items[k].path : k \in 1..Len(items)} \ {<<>>}

\* items.filter(type === 'file').map(path || '').filter(length > 0)
RECURSIVE bookmarkedFiles(_)
bookmarkedFiles(items) ==
  IF items = <<>> THEN <<>>
  ELSE LET rest == bookmarkedFiles(Tail(items))
       IN IF items[1].type = "file" /\ items[1].path # <<>>
            THEN <<items[1].path>> \o rest ELSE rest

\* The basenames of the bookmarked paths that are files of the vault, as a
\* Set (insertion order).
RECURSIVE BasenamesOf(_, _)
BasenamesOf(fs, paths) ==
  IF paths = <<>> THEN <<>>
  ELSE LET init == BasenamesOf(fs, SubSeq(paths, 1, Len(paths) - 1))
           p == paths[Len(paths)]
       IN IF Exists(fs, p) THEN SetAdd(init, FileAt(fs, p).basename) ELSE init

obsidianPageNames(fs, items) == BasenamesOf(fs, bookmarkedFiles(items))

\* new Set(match[1].match(...)...) or an empty Set when the key is absent.
logseqPageNames(text) == Dedup(existingFavorites(text))

\* A variant of Without that filters nothing out.
Without_Nothing(arr, other) == arr

\* arr.filter(p => !other.includes(p))
Without(arr, other) == SelectSeq(arr, LAMBDA p : ~Includes(other, p))

----------------------------------------------------------------------------
(* LogseqerPlugin.syncLogseqToObsidian: the loop that categorizes pages.   *)

\* The loop `for (const pageName of pages)`: items pushed, existingPaths,
\* addedDirectlyCount, missingPages and ambiguousPages after the loop.
RECURSIVE Categorize(_, _, _)
Categorize(pages, fs, items) ==
  IF pages = <<>>
    THEN [items |-> items, paths |-> existingPaths(items), added |-> 0,
          missingPages |-> <<>>, ambiguousPages |-> <<>>]
  ELSE LET acc == Categorize(SubSeq(pages, 1, Len(pages) - 1), fs, items)
           pageName == pages[Len(pages)]
           matches == fileMap(fs, pageName)
       IN IF Len(matches) = 0
            THEN [acc EXCEPT !.missingPages = Append(@, pageName)]
          ELSE IF Len(matches) = 1
            THEN IF matches[1].path \notin acc.paths
                   THEN [acc EXCEPT !.items = Append(@, FileItem(matches[1].path)),
                                    !.paths = @ \cup {matches[1].path},
                                    !.added = @ + 1]
                   ELSE acc
          ELSE IF \E k \in 1..Len(matches) : matches[k].path \in acc.paths
            THEN acc
            ELSE [acc EXCEPT !.ambiguousPages =
                     Append(@, [name |-> pageName,
                                files |-> [k \in 1..Len(matches) |-> matches[k].path]])]

----------------------------------------------------------------------------
(* BookmarkSyncModal.executeSync: the loop over pagesToAddToObsidian.      *)

\* A variant of AddUnique that rebuilds the store from its file items only.
RECURSIVE AddUnique_FilesOnly(_, _, _)
AddUnique_FilesOnly(pages, fs, items) ==
  IF pages = <<>>
    THEN LET kept == SelectSeq(items, LAMBDA i : i.type = "file")
         IN [items |-> kept, paths |-> existingPaths(kept), added |-> 0]
  ELSE LET acc == AddUnique_FilesOnly(SubSeq(pages, 1, Len(pages) - 1), fs, items)
           matches == fileMap(fs, pages[Len(pages)])
       IN IF Len(matches) = 1 /\ matches[1].path \notin acc.paths
            THEN [acc EXCEPT !.items = Append(@, FileItem(matches[1].path)),
                             !.paths = @ \cup {matches[1].path},
                             !.added = @ + 1]
            ELSE acc

RECURSIVE AddUnique(_, _, _)
AddUnique(pages, fs, items) ==
  IF pages = <<>>
    THEN [items |-> items, paths |-> existingPaths(items), added |-> 0]
  ELSE LET acc == AddUnique(SubSeq(pages, 1, Len(pages) - 1), fs, items)
           matches == fileMap(fs, pages[Len(pages)])
       IN IF Len(matches) = 1 /\ matches[1].path \notin acc.paths
            THEN [acc EXCEPT !.items = Append(@, FileItem(matches[1].path)),
                             !.paths = @ \cup {matches[1].path},
                             !.added = @ + 1]
            ELSE acc

----------------------------------------------------------------------------
(* The dialogs.                                                            *)

NoBsm == [open |-> FALSE, obsidianPages |-> <<>>, logseqPages |-> <<>>,
          currentView |-> "obsidian", selectedToAdd |-> <<>>,
          canModifyObsidian |-> FALSE, canModifyLogseq |-> FALSE]

NoSrm == [open |-> FALSE, missingPages |-> <<>>, ambiguousPages |-> <<>>,
          selectedMissing |-> <<>>, selectedAmbiguous |-> <<>>,
          simulation |-> FALSE]

NoCcm == [open |-> FALSE, pageNamesArray |-> <<>>]

NoModalOpen == ~bsm.open /\ ~srm.open /\ ~ccm.open

\* BookmarkSyncModal: the names of the other system the viewed one lacks.
toAdd(m, view) ==
  IF view = "obsidian" THEN Without(m.logseqPages, m.obsidianPages)
                       ELSE Without(m.obsidianPages, m.logseqPages)

\* onOpen: otherPages.filter(p => !currentPages.includes(p)).sort()
toAddItems(m) == Sort(toAdd(m, m.currentView))

\* onOpen: the names of the viewed system and of the other one.
currentPages(m) ==
  IF m.currentView = "obsidian" THEN m.obsidianPages ELSE m.logseqPages

otherPages(m) ==
  IF m.currentView = "obsidian" THEN m.logseqPages ELSE m.obsidianPages

\* onOpen: existingItems = currentPages.sort()
existingItems(m) == Sort(currentPages(m))

\* onOpen: canModify of the current view
canModify(m) ==
  IF m.currentView = "obsidian" THEN m.canModifyObsidian ELSE m.canModifyLogseq

\* A variant of NewBookmarkSyncModal that lets the dialog modify both stores
\* whatever the direction.
NewBookmarkSyncModal_ModifyBoth(obsidianPages, logseqPages, dir) ==
  LET view == IF dir = "logseq-to-obsidian" THEN "logseq" ELSE "obsidian"
      m == [open |-> TRUE, obsidianPages |-> obsidianPages,
            logseqPages |-> logseqPages, currentView |-> view,
            selectedToAdd |-> <<>>,
            canModifyObsidian |-> TRUE, canModifyLogseq |-> TRUE]
  IN [m EXCEPT !.selectedToAdd = toAdd(m, view)]

\* BookmarkSyncModal constructor with initializeSelections().
NewBookmarkSyncModal(obsidianPages, logseqPages, dir) ==
  LET view == IF dir = "logseq-to-obsidian" THEN "logseq" ELSE "obsidian"
      m == [open |-> TRUE, obsidianPages |-> obsidianPages,
            logseqPages |-> logseqPages, currentView |-> view,
            selectedToAdd |-> <<>>,
            canModifyObsidian |-> dir \in {"bidirectional", "logseq-to-obsidian"},
            canModifyLogseq |-> dir \in {"bidirectional", "obsidian-to-logseq"}]
  IN [m EXCEPT !.selectedToAdd = toAdd(m, view)]

\* Map.prototype.set on an insertion-ordered list of [key, value] entries.
MapSet(map, key, value) ==
  IF \E k \in 1..Len(map) : map[k].key = key
    THEN [k \in 1..Len(map) |->
            IF map[k].key = key THEN [key |-> key, value |-> value] ELSE map[k]]
    ELSE Append(map, [key |-> key, value |-> value])

\* SyncResolutionModal constructor: every missing page selected, every
\* ambiguous page set to its first file.
RECURSIVE DefaultAmbiguous(_)
DefaultAmbiguous(ambiguousPages) ==
  IF ambiguousPages = <<>> THEN <<>>
  ELSE LET p == ambiguousPages[Len(ambiguousPages)]
           init == DefaultAmbiguous(SubSeq(ambiguousPages, 1, Len(ambiguousPages) - 1))
       IN IF Len(p.files) > 0 THEN MapSet(init, p.name, p.files[1]) ELSE init

NewSyncResolutionModal(missingPages, ambiguousPages, simulation) ==
  [open |-> TRUE, missingPages |-> missingPages, ambiguousPages |-> ambiguousPages,
   selectedMissing |-> Dedup(missingPages),
   selectedAmbiguous |-> DefaultAmbiguous(ambiguousPages),
   simulation |-> simulation]

----------------------------------------------------------------------------
(* SyncResolutionModal.executeSync.                                        *)

\* this.selectedAmbiguous.forEach((_name, path) => items.push({path: path})):
\* Map.prototype.forEach calls back with (value, key), so the parameter
\* called `path` receives the key of the entry, the page name, and `_name`
\* its value, the selected file path.
RECURSIVE PushAmbiguous(_, _)
PushAmbiguous(items, selectedAmbiguous) ==
  IF selectedAmbiguous = <<>> THEN items
  ELSE LET value == selectedAmbiguous[1].value
           key == selectedAmbiguous[1].key
           _name == value
           path == key
       IN PushAmbiguous(Append(items, FileItem(path)), Tail(selectedAmbiguous))

\* A variant of CreateMissing that creates the pages and bookmarks none.
RECURSIVE CreateMissing_FilesOnly(_, _, _)
CreateMissing_FilesOnly(names, fs, items) ==
  IF names = <<>> THEN [files |-> fs, items |-> items, created |-> 0]
  ELSE LET acc == CreateMissing_FilesOnly(SubSeq(names, 1, Len(names) - 1), fs, items)
           name == names[Len(names)]
           targetPath == PathOf(NewFileParent, name)
       IN IF Exists(acc.files, targetPath) THEN acc
          ELSE [acc EXCEPT !.files = Append(@, TFile(NewFileParent, name))]

\* The loop `for (const name of Array.from(this.selectedMissing))`: the page
\* is created when no file is at the target path, and bookmarked when no
\* item has that path.
RECURSIVE CreateMissing(_, _, _)
CreateMissing(names, fs, items) ==
  IF names = <<>> THEN [files |-> fs, items |-> items, created |-> 0]
  ELSE LET acc == CreateMissing(SubSeq(names, 1, Len(names) - 1), fs, items)
           name == names[Len(names)]
           targetPath == PathOf(NewFileParent, name)
           fs2 == IF Exists(acc.files, targetPath) THEN acc.files
                  ELSE Append(acc.files, TFile(NewFileParent, name))
           exists == \E k \in 1..Len(acc.items) : acc.items[k].path = targetPath
       IN IF exists THEN [acc EXCEPT !.files = fs2]
          ELSE [acc EXCEPT !.files = fs2,
                           !.items = Append(@, FileItem(targetPath)),
                           !.created = @ + 1]

----------------------------------------------------------------------------
(* Bounds and inputs.                                                      *)

\* Largest number of items the bookmark store may hold in the model.
MaxItems == 4
\* Largest number of sync handlers (commands, confirmations) in one run.
MaxOps == 2
\* Largest number of bookmarks in the initial store.
MaxInitBookmarks == 1

Q(name) == <<QUOTE>> \o name \o <<QUOTE>>

\* :favorites ["x" "y"]
Cfg_xy == Str_favorites \o <<SP, "[">> \o Q(Nx) \o <<SP>> \o Q(Ny) \o <<"]">>
\* {:favorites [ "a" "b" ]}
Cfg_ab ==
  <<"{">> \o Str_favorites \o <<SP, "[", SP>> \o Q(Na) \o <<SP>> \o Q(Nb)
    \o <<SP, "]", "}">>
\* ;; :favorites ["y"]   (a comment line holding an old favorites key)
Comment_y ==
  <<";", ";", SP>> \o Str_favorites \o <<SP, "[">> \o Q(Ny) \o <<"]", NL>>
\* ;; c   (a comment line)
Comment_c == <<";", ";", SP, "c", NL>>
\* {:favorites ["dup" "x"]} and a final newline
Cfg_dupx ==
  <<"{">> \o Str_favorites \o <<SP, "[">> \o Q(Ndup) \o <<SP>> \o Q(Nx)
    \o <<"]", "}", NL>>
\* :favorites ["page1" "page2" "page3"]   (the sample of test_regex.js)
Cfg_pages ==
  Str_favorites \o <<SP, "[">> \o Q(Npage1) \o <<SP>> \o Q(Npage2) \o <<SP>>
    \o Q(Npage3) \o <<"]">>
\* {:a 1}: no favorites key
Cfg_nokey == <<"{", ":", "a", SP, "1", "}">>

ConfigTexts ==
  { Cfg_xy, Cfg_ab, Comment_y \o Cfg_ab, Comment_c \o Cfg_ab \o Comment_c,
    Cfg_dupx, Cfg_pages, Cfg_nokey, Cfg_nokey \o <<NL>>, Comment_c,
    <<"{">> \o Str_favorites \o <<NL, "[", "]", "}">> }

Corpora ==
  { << TFile(Str_pages, Nx), TFile(Str_pages, Ny) >>,
    << TFile(Str_pages, Ndup), TFile(Str_pages, Nx), TFile(Str_notes, Ndup) >>,
    << TFile(Str_notes, Ndup), TFile(Str_pages, Ncost), TFile(Str_pages, Ndup) >>,
    << TFile(Str_pages, Na) >> }

\* The initial bookmark stores over a corpus: bookmarks of files of the
\* corpus, with pairwise distinct paths.
RECURSIVE SubSeqs(_)
SubSeqs(s) ==
  IF s = <<>> THEN {<<>>}
  ELSE LET rest == SubSeqs(Tail(s))
       IN rest \cup {<<s[1]>> \o r : r \in rest}

InitialStores(fs) ==
  {st \in SubSeqs([k \in 1..Len(fs) |-> FileItem(fs[k].path)]) :
     Len(st) <= MaxInitBookmarks}

Directions == {"obsidian-to-logseq", "logseq-to-obsidian", "bidirectional"}

----------------------------------------------------------------------------
(* The state machine.                                                      *)

\* What a sync handler reports of its run.  itemsBefore and configBefore are
\* the stores as the handler found them; modal is the dialog it opened;
\* missingPages, ambiguousPages and selectedAmbiguous are what it surfaced.
\* sinceDirect tells that a direct-add run has completed and that no handler
\* has changed a store or the vault otherwise since; directAdded and
\* directSubmitted are the addedCount and the names of that run.  On a
\* direct-add run, again tells that it repeats such a run (it comes after
\* one, with nothing changed in between, and submits no other name), and
\* prevAdded is the addedCount of the run it repeats.
Report(op) ==
  [op |-> op, notice |-> "", modal |-> "none",
   addedCount |-> 0, createdCount |-> 0,
   wroteBookmarks |-> FALSE, wroteConfig |-> FALSE,
   submitted |-> <<>>, toLogseq |-> <<>>,
   missingPages |-> <<>>, ambiguousPages |-> <<>>,
   selectedAmbiguous |-> <<>>, selectedMissing |-> <<>>,
   itemsBefore |-> bookmarks, configBefore |-> config,
   sinceDirect |-> last.sinceDirect, directAdded |-> last.directAdded,
   directSubmitted |-> last.directSubmitted,
   again |-> FALSE, prevAdded |-> 0]

\* The report of a direct-add run that submitted `names` and added n bookmarks.
DirectReport(op, names, n) ==
  [Report(op) EXCEPT
     !.submitted = names, !.addedCount = n, !.wroteBookmarks = n > 0,
     !.sinceDirect = TRUE, !.directAdded = n, !.directSubmitted = names,
     !.again = last.sinceDirect /\ Range(names) \subseteq Range(last.directSubmitted),
     !.prevAdded = last.directAdded]

\* The report of a handler that changed a store or the vault otherwise.
ChangeReport(op) ==
  [Report(op) EXCEPT !.sinceDirect = FALSE, !.directAdded = 0,
                     !.directSubmitted = <<>>]

\* bookmarks.json with the key `items` only.
NoOtherKeys == <<>>

\* The VaultCheckResolutionModal when it is closed.  selectedIssues holds
\* positions of `issues`, in the insertion order of the Set; confirming tells
\* that the confirmation of Apply is on top of it.
NoVcm == [open |-> FALSE, confirming |-> FALSE, issues |-> <<>>,
          selectedIssues |-> <<>>, simulation |-> FALSE]

\* Nothing applied yet: the vault operations of applyFixes() and its counts.
NoIo == [log |-> <<>>, renameCount |-> 0, contentCount |-> 0]

\* DEFAULT_SETTINGS: the flags of the journal handler, of the two commands
\* and of the checks of the vault check.
DEFAULT_SETTINGS ==
  [enableJournalNew |-> TRUE, enableBacklinkQuery |-> TRUE,
   enableVaultCommand |-> TRUE, enableSyncCommand |-> TRUE,
   enableVaultDateCheck |-> TRUE, enableVaultNamespaceCheck |-> TRUE,
   enableVaultTaskMarkerCheck |-> TRUE, enableVaultFolderSettingsCheck |-> TRUE]

\* No call of updateBacklinkQuery so far: a view that is open without its
\* backlinks pane, no timer set.
NoInject ==
  [called |-> FALSE, connected |-> TRUE, dom |-> "none", hidden |-> FALSE,
   value |-> "", pending |-> FALSE, attempt |-> 0, attempts |-> 0,
   clock |-> 0, times |-> <<>>, outcome |-> "none"]

\* onload: the ids of the commands added under their flags.
Registered(st) ==
  (IF st.enableVaultCommand THEN {"check-vault"} ELSE {})
  \cup (IF st.enableSyncCommand THEN {"sync-settings"} ELSE {})

\* The settings with the folder settings check switched off.
FileChecksOnly == [DEFAULT_SETTINGS EXCEPT !.enableVaultFolderSettingsCheck = FALSE]

\* A JSON file of the config directory: whether adapter.exists() finds it,
\* whether JSON.parse() takes its text, and the keys and values of its
\* object in insertion order.
NoFile == [exists |-> FALSE, parses |-> FALSE, data |-> <<>>]
Unparsable == [exists |-> TRUE, parses |-> FALSE, data |-> <<>>]
JsonFile(data) == [exists |-> TRUE, parses |-> TRUE, data |-> data]

\* An entry of a JSON object.
Entry(key, value) == [key |-> key, value |-> value]

\* A config directory without app.json and daily-notes.json, the daily notes
\* plugin holding no options.
NoConfigDir == [app |-> NoFile, daily |-> NoFile, options |-> <<>>]

\* No sync handler has run yet.
NoReport ==
  [op |-> "none", notice |-> "", modal |-> "none",
   addedCount |-> 0, createdCount |-> 0,
   wroteBookmarks |-> FALSE, wroteConfig |-> FALSE,
   submitted |-> <<>>, toLogseq |-> <<>>,
   missingPages |-> <<>>, ambiguousPages |-> <<>>,
   selectedAmbiguous |-> <<>>, selectedMissing |-> <<>>,
   itemsBefore |-> <<>>, configBefore |-> <<>>,
   sinceDirect |-> FALSE, directAdded |-> 0,
   directSubmitted |-> <<>>,
   again |-> FALSE, prevAdded |-> 0]

Init ==
  /\ files \in Corpora
  /\ bookmarks \in InitialStores(files)
  /\ config \in ConfigTexts
  /\ direction \in Directions
  /\ bsm = NoBsm
  /\ srm = NoSrm
  /\ ccm = NoCcm
  /\ last = NoReport
  /\ ops = 0
  /\ root = NoOtherKeys
  /\ env = "ok"
  /\ contents = <<>>
  /\ folders = {}
  /\ vcm = NoVcm
  /\ io = NoIo
  /\ settings = DEFAULT_SETTINGS
  /\ configDir = NoConfigDir
  /\ runs = <<>>
  /\ commands = Registered(DEFAULT_SETTINGS)
  /\ inject = NoInject

\* LogseqerPlugin.syncSettings (the command 'Sync settings'): reads both
\* stores and opens the BookmarkSyncModal.
SyncSettings ==
  /\ NoModalOpen
  /\ ops < MaxOps
  /\ bsm' = NewBookmarkSyncModal(Sort(obsidianPageNames(files, bookmarks)),
                                 Sort(logseqPageNames(config)), direction)
  /\ last' = [Report("syncSettings") EXCEPT !.modal = "BookmarkSyncModal"]
  /\ ops' = ops + 1
  /\ UNCHANGED <<files, bookmarks, config, direction, srm, ccm, restVars>>

\* obsidianBtn.onclick / logseqBtn.onclick: switch the view and keep the
\* selections that are valid in the new view.
\* The click on a view button with the selection left as it is.
switchView_KeepSelection(m, view) == [m EXCEPT !.currentView = view]

\* The dialog after the click on the button of a view: the selection is
\* cut down to the to-add names of that view.
switchView(m, view) ==
  LET valid == toAdd([m EXCEPT !.currentView = view], view)
  IN [m EXCEPT !.currentView = view,
               !.selectedToAdd =
                 SelectSeq(valid, LAMBDA p : Includes(m.selectedToAdd, p))]

ClickView(view) ==
  /\ bsm.open
  /\ bsm' = switchView(bsm, view)
  /\ UNCHANGED <<files, bookmarks, config, direction, srm, ccm, last, ops,
               restVars>>

ClickObsidianView == ClickView("obsidian")

ClickLogseqView == ClickView("logseq")

\* checkbox.onchange of one to-add item.
ToggleToAdd ==
  /\ bsm.open
  /\ canModify(bsm)
  /\ \E k \in 1..Len(toAddItems(bsm)) :
       LET page == toAddItems(bsm)[k]
       IN bsm' = [bsm EXCEPT !.selectedToAdd =
                    IF Includes(@, page) THEN SetDelete(@, page) ELSE SetAdd(@, page)]
  /\ UNCHANGED <<files, bookmarks, config, direction, srm, ccm, last, ops,
               restVars>>

\* SetAdd of every name of a list.
RECURSIVE AddAll(_, _)
AddAll(set, names) ==
  IF names = <<>> THEN set ELSE AddAll(SetAdd(set, names[1]), Tail(names))

\* toAddHeaderCheckbox.onchange: select, or deselect, every to-add item.
ToggleToAddHeader ==
  /\ bsm.open
  /\ canModify(bsm)
  /\ LET items == toAddItems(bsm)
         checked == items # <<>> /\ \A k \in 1..Len(items) :
                                      Includes(bsm.selectedToAdd, items[k])
     IN bsm' = [bsm EXCEPT !.selectedToAdd =
                  IF ~checked THEN AddAll(@, items) ELSE Without(@, items)]
  /\ UNCHANGED <<files, bookmarks, config, direction, srm, ccm, last, ops,
               restVars>>

\* BookmarkSyncModal.executeSync, first part.
pagesToAddToObsidian(m) ==
  IF m.canModifyObsidian
    THEN SelectSeq(m.selectedToAdd, LAMBDA p :
           Includes(m.logseqPages, p) /\ ~Includes(m.obsidianPages, p))
    ELSE <<>>

\* BookmarkSyncModal.executeSync, second part.
pagesToAddToLogseq(m) ==
  IF m.canModifyLogseq
    THEN SelectSeq(m.selectedToAdd, LAMBDA p :
           Includes(m.obsidianPages, p) /\ ~Includes(m.logseqPages, p))
    ELSE <<>>

\* A variant of BsmConfirm that merges the selection into the favorites the
\* dialog was opened with, not into those of the config as it is now.
BsmConfirm_Snapshot ==
  /\ bsm.open
  /\ LET toObs == pagesToAddToObsidian(bsm)
         toLog == pagesToAddToLogseq(bsm)
         r == AddUnique(toObs, files, bookmarks)
         fav == FavoritesText(Sort(Dedup(bsm.logseqPages \o toLog)))
     IN /\ Len(r.items) <= MaxItems
        /\ bookmarks' = IF r.added > 0 THEN r.items ELSE bookmarks
        /\ config' = IF toLog = <<>> THEN config
                     ELSE IF favoritesRegexMatch(config).found
                       THEN ReplaceFavorites(config, fav)
                     ELSE config \o <<NL>> \o fav
        /\ last' = [ChangeReport("executeSync") EXCEPT
                      !.submitted = toObs, !.toLogseq = toLog,
                      !.addedCount = r.added,
                      !.wroteBookmarks = r.added > 0,
                      !.wroteConfig = toLog # <<>>]
  /\ bsm' = NoBsm
  /\ UNCHANGED <<files, direction, srm, ccm, ops, restVars>>

\* confirmBtn.onclick of the BookmarkSyncModal: executeSync(), then close().
BsmConfirm ==
  /\ bsm.open
  /\ LET toObs == pagesToAddToObsidian(bsm)
         toLog == pagesToAddToLogseq(bsm)
         r == AddUnique(toObs, files, bookmarks)
         rep == IF toLog # <<>> THEN ChangeReport("executeSync")
                ELSE DirectReport("executeSync", toObs, r.added)
     IN /\ Len(r.items) <= MaxItems
        /\ bookmarks' = IF r.added > 0 THEN r.items ELSE bookmarks
        /\ config' = IF toLog # <<>> THEN WriteFavorites(config, toLog) ELSE config
        /\ last' = [rep EXCEPT
                      !.submitted = toObs, !.toLogseq = toLog,
                      !.addedCount = r.added,
                      !.wroteBookmarks = r.added > 0,
                      !.wroteConfig = toLog # <<>>,
                      !.notice = IF toLog # <<>> THEN "Added favorites to Logseq."
                                 ELSE IF r.added > 0 THEN "Added bookmarks to Obsidian."
                                 ELSE ""]
  /\ bsm' = NoBsm
  /\ UNCHANGED <<files, direction, srm, ccm, ops, restVars>>

\* cancelBtn.onclick of the BookmarkSyncModal.
BsmCancel ==
  /\ bsm.open
  /\ bsm' = NoBsm
  /\ UNCHANGED <<files, bookmarks, config, direction, srm, ccm, last, ops,
               restVars>>

\* LogseqerPlugin.syncLogseqToObsidian.
SyncLogseqToObsidian ==
  /\ NoModalOpen
  /\ ops < MaxOps
  /\ LET match == favoritesRegexMatch(config)
         pages == QuotedNames(match.group1)
         r == Categorize(pages, files, bookmarks)
         surfaced == r.missingPages # <<>> \/ r.ambiguousPages # <<>>
         modal == NewSyncResolutionModal(r.missingPages, r.ambiguousPages, FALSE)
     IN IF ~match.found
          THEN /\ last' = [Report("syncLogseqToObsidian") EXCEPT
                             !.notice = "No :favorites found in Logseq config."]
               /\ UNCHANGED <<bookmarks, srm>>
        ELSE IF Len(pages) = 0
          THEN /\ last' = [Report("syncLogseqToObsidian") EXCEPT
                             !.notice = "No pages found in Logseq favorites."]
               /\ UNCHANGED <<bookmarks, srm>>
        ELSE /\ Len(r.items) <= MaxItems
             /\ bookmarks' = IF r.added > 0 THEN r.items ELSE bookmarks
             /\ srm' = IF surfaced THEN modal ELSE srm
             /\ last' = [DirectReport("syncLogseqToObsidian", pages, r.added) EXCEPT
                           !.missingPages = r.missingPages,
                           !.ambiguousPages = r.ambiguousPages,
                           !.selectedAmbiguous =
                             IF surfaced THEN modal.selectedAmbiguous ELSE <<>>,
                           !.selectedMissing =
                             IF surfaced THEN modal.selectedMissing ELSE <<>>,
                           !.modal =
                             IF surfaced THEN "SyncResolutionModal" ELSE "none",
                           !.notice =
                             IF ~surfaced /\ r.added = 0
                               THEN "Bookmarks are up to date."
                             ELSE IF r.added > 0
                               THEN "Synced favorites from Logseq to Obsidian."
                             ELSE ""]
  /\ ops' = ops + 1
  /\ UNCHANGED <<files, config, direction, bsm, ccm, restVars>>

\* select.onchange of an ambiguous page: the chosen file path.
SrmSelect ==
  /\ srm.open
  /\ \E k \in 1..Len(srm.ambiguousPages) :
       \E j \in 1..Len(srm.ambiguousPages[k].files) :
         srm' = [srm EXCEPT !.selectedAmbiguous =
                   MapSet(@, srm.ambiguousPages[k].name, srm.ambiguousPages[k].files[j])]
  /\ UNCHANGED <<files, bookmarks, config, direction, bsm, ccm, last, ops,
               restVars>>

\* checkbox.onchange of a missing page.
SrmToggleMissing ==
  /\ srm.open
  /\ \E k \in 1..Len(srm.missingPages) :
       LET p == srm.missingPages[k]
       IN srm' = [srm EXCEPT !.selectedMissing =
                    IF Includes(@, p) THEN SetDelete(@, p) ELSE SetAdd(@, p)]
  /\ UNCHANGED <<files, bookmarks, config, direction, bsm, ccm, last, ops,
               restVars>>

\* executeSync() without the test of this.simulation.
SrmSyncSelected_NoSimulationGuard ==
  /\ srm.open
  /\ LET withAmbiguous == PushAmbiguous(bookmarks, srm.selectedAmbiguous)
         addedCount == Len(srm.selectedAmbiguous)
         r == CreateMissing(srm.selectedMissing, files, withAmbiguous)
         wrote == r.created > 0 \/ addedCount > 0
     IN /\ Len(r.items) <= MaxItems
        /\ files' = r.files
        /\ bookmarks' = IF wrote THEN r.items ELSE bookmarks
        /\ srm' = NoSrm
        /\ last' = [ChangeReport("SyncResolutionModal.executeSync") EXCEPT
                      !.addedCount = addedCount,
                      !.createdCount = r.created,
                      !.wroteBookmarks = wrote,
                      !.selectedAmbiguous = srm.selectedAmbiguous,
                      !.selectedMissing = srm.selectedMissing,
                      !.notice = IF wrote THEN "Synced." ELSE ""]
  /\ UNCHANGED <<config, direction, bsm, ccm, ops, restVars>>

\* saveBtn.onclick of the SyncResolutionModal: executeSync().
SrmSyncSelected ==
  /\ srm.open
  /\ IF srm.simulation
       THEN /\ last' = [Report("SyncResolutionModal.executeSync") EXCEPT
                          !.notice = "Simulation mode: no changes will be made."]
            /\ UNCHANGED <<files, bookmarks, srm>>
       ELSE LET withAmbiguous == PushAmbiguous(bookmarks, srm.selectedAmbiguous)
                addedCount == Len(srm.selectedAmbiguous)
                r == CreateMissing(srm.selectedMissing, files, withAmbiguous)
                wrote == r.created > 0 \/ addedCount > 0
            IN /\ Len(r.items) <= MaxItems
               /\ files' = r.files
               /\ bookmarks' = IF wrote THEN r.items ELSE bookmarks
               /\ srm' = NoSrm
               /\ last' = [ChangeReport("SyncResolutionModal.executeSync") EXCEPT
                             !.addedCount = addedCount,
                             !.createdCount = r.created,
                             !.wroteBookmarks = wrote,
                             !.selectedAmbiguous = srm.selectedAmbiguous,
                             !.selectedMissing = srm.selectedMissing,
                             !.notice = IF wrote THEN "Synced." ELSE ""]
  /\ UNCHANGED <<config, direction, bsm, ccm, ops, restVars>>

\* cancelBtn.onclick of the SyncResolutionModal.
SrmCancel ==
  /\ srm.open
  /\ srm' = NoSrm
  /\ UNCHANGED <<files, bookmarks, config, direction, bsm, ccm, last, ops,
               restVars>>

\* LogseqerPlugin.syncObsidianToLogseq up to the confirmation dialog.
SyncObsidianToLogseq ==
  /\ NoModalOpen
  /\ ops < MaxOps
  /\ LET pageNamesArray == obsidianPageNames(files, bookmarks)
         newFavorites == Without(pageNamesArray, existingFavorites(config))
         rep == Report("syncObsidianToLogseq")
     IN IF bookmarkedFiles(bookmarks) = <<>>
          THEN /\ last' = [rep EXCEPT !.notice = "No bookmarks found in Obsidian."]
               /\ ccm' = ccm
        ELSE IF newFavorites = <<>>
          THEN /\ last' = [rep EXCEPT !.notice =
                             "All bookmarks are already in Logseq favorites."]
               /\ ccm' = ccm
        ELSE /\ last' = [rep EXCEPT !.modal = "CustomConfirmationModal"]
             /\ ccm' = [open |-> TRUE, pageNamesArray |-> pageNamesArray]
  /\ ops' = ops + 1
  /\ UNCHANGED <<files, bookmarks, config, direction, bsm, srm, restVars>>

\* confirmBtn.onclick of the CustomConfirmationModal: the callback of
\* syncObsidianToLogseq re-reads the config and writes the merged favorites.
CcmConfirm ==
  /\ ccm.open
  /\ config' = WriteFavorites(config, ccm.pageNamesArray)
  /\ last' = [ChangeReport("syncObsidianToLogseq.onConfirm") EXCEPT
                !.toLogseq = ccm.pageNamesArray, !.wroteConfig = TRUE,
                !.notice = "Added new bookmarks to Logseq favorites."]
  /\ ccm' = NoCcm
  /\ UNCHANGED <<files, bookmarks, direction, bsm, srm, ops, restVars>>

\* cancelBtn.onclick of the CustomConfirmationModal.
CcmCancel ==
  /\ ccm.open
  /\ ccm' = NoCcm
  /\ UNCHANGED <<files, bookmarks, config, direction, bsm, srm, last, ops,
               restVars>>

\* The handlers of the bookmark sync.  JSON.parse, push and JSON.stringify
\* of the root object leave its other keys as they are.
Next ==
  \/ SyncSettings
  \/ ClickObsidianView
  \/ ClickLogseqView
  \/ ToggleToAdd
  \/ ToggleToAddHeader
  \/ BsmConfirm
  \/ BsmCancel
  \/ SyncLogseqToObsidian
  \/ SrmSelect
  \/ SrmToggleMissing
  \/ SrmSyncSelected
  \/ SrmCancel
  \/ SyncObsidianToLogseq
  \/ CcmConfirm
  \/ CcmCancel

Spec == Init /\ [][Next]_vars

----------------------------------------------------------------------------
(* Properties.                                                             *)

\* The items the last handler appended to the bookmark store.
Appended == SubSeq(bookmarks, Len(last.itemsBefore) + 1, Len(bookmarks))

\* The number of items of the store with the given path.
CountPath(items, path) == Cardinality({k \in 1..Len(items) : items[k].path = path})

Resolved ==
  /\ last.op = "SyncResolutionModal.executeSync"
  /\ last.notice # "Simulation mode: no changes will be made."

\* C1: when the sync-resolution dialog is confirmed, the item appended for
\* each ambiguous name is a file item whose path is the candidate path
\* selected for that name, and no item with another path is appended for it.
C1_SelectedCandidateAppended ==
  Resolved =>
    /\ Len(Appended) >= Len(last.selectedAmbiguous)
    /\ \A k \in 1..Len(last.selectedAmbiguous) :
         Appended[k] = FileItem(last.selectedAmbiguous[k].value)

\* C2: no two items of the bookmark store have the same path.
C2_NoDuplicatePaths ==
  \A i, j \in 1..Len(bookmarks) :
    i # j => bookmarks[i].path # bookmarks[j].path

DirectOps == {"syncLogseqToObsidian", "executeSync"}

\* The positions of the corpus files with the given basename.
Named(name) == {k \in 1..Len(files) : files[k].basename = name}

\* C3: a direct-add run that repeats a direct-add run, with no change in
\* between, adds nothing: its addedCount is 0, it does not write the bookmark
\* store, and the store holds the file of a submitted name at most once.
C3_SecondRunAddsNothing ==
  (last.op \in DirectOps /\ last.again) =>
    /\ last.addedCount = 0
    /\ ~last.wroteBookmarks
    /\ bookmarks = last.itemsBefore
    /\ \A n \in Range(last.submitted) : \A k \in Named(n) :
         CountPath(bookmarks, files[k].path) <= 1

\* A second run after a run that added bookmarks.
C3_Witness ==
  last.op \in DirectOps /\ last.again /\ last.prevAdded > 0 /\ last.submitted # <<>>

\* C4: after a direct-add run every submitted name has exactly one outcome:
\* the bookmark of its unique file is in the store, or it was surfaced as
\* missing, or it was surfaced as ambiguous with its candidates (unless a
\* candidate is bookmarked).
C4_EveryNameHasAnOutcome ==
  (last.op \in DirectOps /\ last.submitted # <<>>) =>
    \A n \in Range(last.submitted) :
      LET N == Cardinality(Named(n))
          isMissing == Includes(last.missingPages, n)
          isAmbiguous == \E k \in 1..Len(last.ambiguousPages) :
                           /\ last.ambiguousPages[k].name = n
                           /\ Range(last.ambiguousPages[k].files)
                                = {files[i].path : i \in Named(n)}
          bookmarked == \E i \in Named(n) : CountPath(bookmarks, files[i].path) > 0
      IN /\ N = 0 => isMissing
         /\ N = 1 => bookmarked /\ ~isMissing /\ ~isAmbiguous
         /\ N >= 2 => (isAmbiguous \/ bookmarked) /\ ~isMissing

CorpusXY == << TFile(Str_pages, Nx), TFile(Str_pages, Ny) >>

\* The scenario of C5, as the last handler found it.
ScenarioXY ==
  /\ files = CorpusXY
  /\ last.configBefore = Cfg_xy
  /\ last.itemsBefore = <<>>

C6_ClassifiedByMatchCount ==
  (last.op = "syncLogseqToObsidian" /\ last.submitted # <<>>) =>
    \A n \in Range(last.submitted) :
      LET N == Cardinality(Named(n))
          candidates == {files[i].path : i \in Named(n)}
          entries == {k \in 1..Len(last.ambiguousPages) : last.ambiguousPages[k].name = n}
          linked == candidates \cap existingPaths(last.itemsBefore) # {}
          position(path) == CHOOSE i \in 1..Len(files) : files[i].path = path
          added == {Appended[k].path : k \in 1..Len(Appended)}
      IN /\ N = 0 => Includes(last.missingPages, n) /\ entries = {}
         /\ N = 1 => /\ candidates \subseteq existingPaths(bookmarks)
                     /\ ~Includes(last.missingPages, n)
                     /\ entries = {}
         /\ (N >= 2 /\ ~linked) =>
              /\ ~Includes(last.missingPages, n)
              /\ entries # {}
              /\ \A k \in entries :
                   LET fs == last.ambiguousPages[k].files
                   IN /\ Len(fs) = N
                      /\ Range(fs) = candidates
                      /\ \A i, j \in 1..Len(fs) :
                           i < j => position(fs[i]) < position(fs[j])
              /\ \E e \in Range(last.selectedAmbiguous) :
                   /\ e.key = n
                   /\ position(e.value) = CHOOSE i \in Named(n) : \A j \in Named(n) : i <= j
              /\ added \cap candidates = {}
         /\ (N >= 2 /\ linked) =>
              /\ ~Includes(last.missingPages, n)
              /\ entries = {}
              /\ added \cap candidates = {}

\* An ambiguous name with two candidates next to a unique one.
C6_Witness ==
  /\ last.op = "syncLogseqToObsidian"
  /\ last.addedCount > 0
  /\ \E k \in 1..Len(last.ambiguousPages) : Len(last.ambiguousPages[k].files) = 2

----------------------------------------------------------------------------
(* The code lines of the config text, as the read of the journal           *)
(* page-title format takes them.                                           *)

\* cfg.split(/\r?\n|\r/): the lines of a text (the texts here hold no \r).
RECURSIVE lines(_)
lines(cfg) ==
  LET n == FirstIdx(cfg, 1, NL)
  IN IF n = 0 THEN <<cfg>>
     ELSE <<SubSeq(cfg, 1, n - 1)>> \o lines(From(cfg, n + 1))

\* String.prototype.trim
RECURSIVE trim(_)
trim(line) ==
  IF line = <<>> THEN <<>>
  ELSE IF IsWs(line[1]) THEN trim(Tail(line))
  ELSE IF IsWs(line[Len(line)]) THEN trim(SubSeq(line, 1, Len(line) - 1))
  ELSE line

\* lines.map(line => line.trim()).filter(line => line && !line.startsWith(';;'))
validLines(cfg) ==
  SelectSeq([k \in 1..Len(lines(cfg)) |-> trim(lines(cfg)[k])],
            LAMBDA line : line # <<>> /\ ~LitAt(line, 1, <<";", ";">>))

\* validLines.join('\n')
codeText(cfg) == Join(validLines(cfg), <<NL>>)

----------------------------------------------------------------------------
(* Favorites extraction and favorites writing.                             *)

\* C7: favorites extraction ignores comment lines: when the favorites key of
\* the code lines of the config text reads "a" "b", the favorites that
\* syncSettings extracts are exactly a and b.
C7_ExtractionIgnoresComments ==
  (last.op = "syncSettings" /\ existingFavorites(codeText(config)) = <<Na, Nb>>) =>
    bsm.logseqPages = <<Na, Nb>>

\* The double-quoted tokens of a text: the characters between the first and
\* the second quote, between the third and the fourth, and so on.
RECURSIVE QuotedTokens(_, _, _)
QuotedTokens(str, inside, token) ==
  IF str = <<>> THEN <<>>
  ELSE IF str[1] = QUOTE
    THEN IF inside THEN <<token>> \o QuotedTokens(Tail(str), FALSE, <<>>)
         ELSE QuotedTokens(Tail(str), TRUE, <<>>)
  ELSE QuotedTokens(Tail(str), inside, IF inside THEN Append(token, str[1]) ELSE <<>>)

\* The text between the bracket that follows the first :favorites key and
\* the first closing bracket after it.
BracketedValue(text) == favoritesRegexMatch(text).group1

KeyAbsent(text) == ~favoritesRegexMatch(text).found

\* C8: favorites extraction returns exactly the double-quoted tokens inside
\* the bracketed value of the favorites key (page1, page2, page3 on the
\* sample text), and the empty set when the key is absent, in which case no
\* handler reports an error or stops the sync for it.
C8_ExtractionReturnsQuotedTokens ==
  /\ existingFavorites(Cfg_pages) = <<Npage1, Npage2, Npage3>>
  /\ ~KeyAbsent(config) =>
       existingFavorites(config) = QuotedTokens(BracketedValue(config), FALSE, <<>>)
  /\ KeyAbsent(config) => existingFavorites(config) = <<>>
  /\ (last.op = "syncSettings" /\ KeyAbsent(last.configBefore)) =>
       bsm.logseqPages = <<>> /\ last.notice = ""
  /\ (last.op = "syncLogseqToObsidian" /\ KeyAbsent(last.configBefore)) =>
       last.notice # "No :favorites found in Logseq config."

\* The handlers that write the favorites.
FavoritesWritten ==
  /\ last.op \in {"executeSync", "syncObsidianToLogseq.onConfirm"}
  /\ last.wroteConfig

\* C9: after a write of the favorites, the names extracted from the written
\* text are exactly the names extracted before and the names added, each
\* once, in ascending order.
C9_WriteThenExtractIsUnion ==
  FavoritesWritten =>
    LET names == existingFavorites(config)
    IN /\ Range(names) = Range(existingFavorites(last.configBefore)) \cup Range(last.toLogseq)
       /\ \A i, j \in 1..Len(names) : i < j => StrLess(names[i], names[j])

\* C10: a write of the favorites changes the favorites span only: with the
\* key present, the text before and the text after the span are unchanged;
\* with the key absent, the written text is the original text with the new
\* key put in at one place.
C10_WriteKeepsTheRest ==
  FavoritesWritten =>
    LET orig == last.configBefore
        match == favoritesRegexMatch(orig)
        n == Len(orig)
    IN IF match.found
         THEN /\ Len(config) >= n - (match.last - match.index + 1)
              /\ SubSeq(config, 1, match.index - 1) = SubSeq(orig, 1, match.index - 1)
              /\ From(config, Len(config) - (n - match.last) + 1) = From(orig, match.last + 1)
         ELSE /\ Len(config) > n
              /\ \E k \in 0..n :
                   /\ SubSeq(config, 1, k) = SubSeq(orig, 1, k)
                   /\ From(config, Len(config) - (n - k) + 1) = From(orig, k + 1)

----------------------------------------------------------------------------
(* The bookmark sync dialog.                                               *)

\* The two name sets of the open dialog: of the viewed system, of the other.
ThisSystemNames ==
  IF bsm.currentView = "obsidian" THEN Range(bsm.obsidianPages)
                                  ELSE Range(bsm.logseqPages)

OtherSystemNames ==
  IF bsm.currentView = "obsidian" THEN Range(bsm.logseqPages)
                                  ELSE Range(bsm.obsidianPages)

DeltaIsSetAlgebra ==
  bsm.open =>
    /\ Range(toAddItems(bsm)) = OtherSystemNames \ ThisSystemNames
    /\ Range(existingItems(bsm)) = ThisSystemNames
    /\ Range(toAddItems(bsm)) \cap Range(existingItems(bsm)) = {}
    /\ Range(bsm.selectedToAdd) \subseteq OtherSystemNames \ ThisSystemNames

\* C12: in the bookmark sync dialog toAdd is exactly the names of the other
\* system that the viewed system lacks, existing is exactly the names of
\* the viewed system, the two are disjoint, and a step that shows another
\* view or selection changes neither a store nor the vault.
C12_DeltaIsPureSetAlgebra ==
  /\ []DeltaIsSetAlgebra
  /\ [][(bsm.open /\ bsm'.open) => UNCHANGED <<files, bookmarks, config>>]_vars

\* The Logseq view with names to add and existing names.
C12_Witness ==
  /\ bsm.open
  /\ bsm.currentView = "logseq"
  /\ toAddItems(bsm) # <<>>
  /\ existingItems(bsm) # <<>>

\* C13: while the bookmark sync dialog is open, no step writes the bookmark
\* store under direction obsidian-to-logseq and no step writes the Logseq
\* config under direction logseq-to-obsidian; a step that writes both
\* stores is taken under direction bidirectional.
C13_DirectionBoundsWrites ==
  [][bsm.open =>
       /\ direction = "obsidian-to-logseq" => bookmarks' = bookmarks
       /\ direction = "logseq-to-obsidian" => config' = config
       /\ (bookmarks' # bookmarks /\ config' # config) => direction = "bidirectional"]_vars

\* A confirmation that wrote the one store its direction allows, with names
\* of the other kind on offer.
C13_Witness ==
  /\ last.op = "executeSync"
  /\ direction = "logseq-to-obsidian"
  /\ last.wroteBookmarks
  /\ obsidianPageNames(files, last.itemsBefore) # <<>>

----------------------------------------------------------------------------
(* The stores under faults and external writers.                           *)

\* A bookmark group { type: 'group', title, items }: it has no path, which
\* `item.path || ''` reads as the empty string.
GroupItem ==
  [type |-> "group", path |-> <<>>, title |-> <<"g">>,
   items |-> <<FileItem(PathOf(Str_pages, Nx))>>]

\* Another key of the root object of bookmarks.json.
OtherKeys == <<[key |-> "sortOrder", value |-> "manual"]>>

StoreCorpus ==
  << TFile(Str_pages, Ndup), TFile(Str_pages, Nx), TFile(Str_notes, Ndup),
     TFile(Str_pages, Na) >>

\* The initial bookmarks.json files: the items and the other root keys.
StoreInitialStores ==
  { [items |-> <<GroupItem>>, root |-> OtherKeys],
    [items |-> <<FileItem(PathOf(Str_pages, Na)), GroupItem>>, root |-> NoOtherKeys] }

StoreConfigTexts == {Cfg_dupx, Cfg_nokey}

\* What the adapter does: "ok", or one store is missing, is no JSON, or
\* rejects a write.
Faults ==
  {"bookmarksMissing", "bookmarksUnparsable", "bookmarksReadOnly",
   "configMissing", "configReadOnly"}

StoresInit ==
  /\ files = StoreCorpus
  /\ \E st \in StoreInitialStores : bookmarks = st.items /\ root = st.root
  /\ config \in StoreConfigTexts
  /\ direction \in Directions
  /\ bsm = NoBsm
  /\ srm = NoSrm
  /\ ccm = NoCcm
  /\ last = NoReport
  /\ ops = 0
  /\ env = "ok"
  /\ contents = <<>>
  /\ folders = {}
  /\ vcm = NoVcm
  /\ io = NoIo
  /\ settings = DEFAULT_SETTINGS
  /\ configDir = NoConfigDir
  /\ runs = <<>>
  /\ commands = Registered(DEFAULT_SETTINGS)
  /\ inject = NoInject

\* The report of a handler that ended with an error notice.
ErrorReport(op, notice) == [Report(op) EXCEPT !.notice = notice]

\* syncSettings when the adapter fails: a missing store ends it at the
\* exists() checks, an unparsable bookmarks.json in its catch block.
SyncSettingsFaulty ==
  /\ env # "ok"
  /\ IF env \in {"bookmarksMissing", "configMissing", "bookmarksUnparsable"}
       THEN /\ NoModalOpen
            /\ ops < MaxOps
            /\ last' = ErrorReport("syncSettings",
                 CASE env = "bookmarksMissing" -> "Obsidian bookmarks not found."
                   [] env = "configMissing" -> "Logseq config not found."
                   [] OTHER -> "Error preparing bookmark sync. See console.")
            /\ ops' = ops + 1
            /\ UNCHANGED <<files, bookmarks, config, direction, bsm, srm, ccm,
                           restVars>>
       ELSE SyncSettings

\* A variant of BsmConfirmFaulty that catches the failure of the first part
\* and goes on with the second part.
BsmConfirmFaulty_GoesOn ==
  /\ env # "ok"
  /\ bsm.open
  /\ LET toObs == pagesToAddToObsidian(bsm)
         toLog == pagesToAddToLogseq(bsm)
         r == AddUnique(toObs, files, bookmarks)
     IN /\ Len(r.items) <= MaxItems
        /\ bookmarks' = IF r.added > 0 THEN r.items ELSE bookmarks
        /\ config' = IF toLog # <<>> THEN WriteFavorites(config, toLog) ELSE config
        /\ last' = [ChangeReport("executeSync") EXCEPT
                      !.submitted = toObs, !.toLogseq = toLog,
                      !.addedCount = r.added,
                      !.wroteBookmarks = r.added > 0,
                      !.wroteConfig = toLog # <<>>,
                      !.notice = "Error executing bookmark sync. See console."]
  /\ bsm' = NoBsm
  /\ UNCHANGED <<files, direction, srm, ccm, ops, restVars>>

\* confirmBtn.onclick of the BookmarkSyncModal when the adapter fails: the
\* one try block of executeSync() ends at the first read, parse or write
\* that throws, the catch block shows the notice, and close() follows.
BsmConfirmFaulty ==
  /\ env # "ok"
  /\ bsm.open
  /\ LET toObs == pagesToAddToObsidian(bsm)
         toLog == pagesToAddToLogseq(bsm)
         r == AddUnique(toObs, files, bookmarks)
         fails1 == /\ toObs # <<>>
                   /\ \/ env \in {"bookmarksMissing", "bookmarksUnparsable"}
                      \/ env = "bookmarksReadOnly" /\ r.added > 0
         fails2 == /\ ~fails1
                   /\ toLog # <<>>
                   /\ env \in {"configMissing", "configReadOnly"}
         wrote1 == ~fails1 /\ r.added > 0
     IN IF ~fails1 /\ ~fails2 THEN BsmConfirm
        ELSE /\ Len(r.items) <= MaxItems
             /\ bookmarks' = IF wrote1 THEN r.items ELSE bookmarks
             /\ config' = config
             /\ last' = [ChangeReport("executeSync") EXCEPT
                           !.submitted = toObs, !.toLogseq = toLog,
                           !.addedCount = IF wrote1 THEN r.added ELSE 0,
                           !.wroteBookmarks = wrote1,
                           !.notice = "Error executing bookmark sync. See console."]
             /\ bsm' = NoBsm
             /\ UNCHANGED <<files, direction, srm, ccm, ops, restVars>>

\* syncLogseqToObsidian when the adapter fails.
SyncLogseqToObsidianFaulty ==
  /\ env # "ok"
  /\ LET match == favoritesRegexMatch(config)
         pages == QuotedNames(match.group1)
         r == Categorize(pages, files, bookmarks)
         op == "syncLogseqToObsidian"
         stopped == /\ NoModalOpen
                    /\ ops < MaxOps
                    /\ ops' = ops + 1
                    /\ UNCHANGED <<files, bookmarks, config, direction, bsm, srm,
                                   ccm, restVars>>
     IN CASE env = "configMissing" ->
               stopped /\ last' = ErrorReport(op, "Logseq config not found.")
          [] env = "bookmarksMissing" ->
               stopped /\ last' = ErrorReport(op, "Obsidian bookmarks not found.")
          [] env = "bookmarksUnparsable"
               \/ (env = "bookmarksReadOnly" /\ match.found /\ r.added > 0) ->
               stopped /\ last' = ErrorReport(op,
                                    "Error syncing from Logseq to Obsidian. See console.")
          [] OTHER -> SyncLogseqToObsidian

\* saveBtn.onclick of the SyncResolutionModal when the adapter fails: the
\* files of the missing pages are created before the write that throws.
SrmSyncSelectedFaulty ==
  /\ env # "ok"
  /\ srm.open
  /\ LET op == "SyncResolutionModal.executeSync"
         withAmbiguous == PushAmbiguous(bookmarks, srm.selectedAmbiguous)
         r == CreateMissing(srm.selectedMissing, files, withAmbiguous)
         wrote == r.created > 0 \/ Len(srm.selectedAmbiguous) > 0
     IN IF srm.simulation \/ env \in {"configMissing", "configReadOnly"}
             \/ (env = "bookmarksReadOnly" /\ ~wrote)
          THEN SrmSyncSelected
        ELSE /\ files' = IF env = "bookmarksReadOnly" THEN r.files ELSE files
             /\ last' = [ChangeReport(op) EXCEPT
                           !.selectedAmbiguous = srm.selectedAmbiguous,
                           !.selectedMissing = srm.selectedMissing,
                           !.notice = "Failed to sync bookmarks."]
             /\ srm' = NoSrm
             /\ UNCHANGED <<bookmarks, config, direction, bsm, ccm, ops, restVars>>

\* syncObsidianToLogseq when the adapter fails.
SyncObsidianToLogseqFaulty ==
  /\ env # "ok"
  /\ LET op == "syncObsidianToLogseq"
         stopped == /\ NoModalOpen
                    /\ ops < MaxOps
                    /\ ops' = ops + 1
                    /\ UNCHANGED <<files, bookmarks, config, direction, bsm, srm,
                                   ccm, restVars>>
     IN CASE env = "bookmarksMissing" ->
               stopped /\ last' = ErrorReport(op, "Obsidian bookmarks not found.")
          [] env = "configMissing" ->
               stopped /\ last' = ErrorReport(op, "Logseq config not found.")
          [] env = "bookmarksUnparsable" ->
               stopped /\ last' = ErrorReport(op,
                                    "Error syncing from Obsidian to Logseq. See console.")
          [] OTHER -> SyncObsidianToLogseq

\* confirmBtn.onclick of the CustomConfirmationModal when the adapter fails:
\* the callback's read or write of the config throws into its catch block.
CcmConfirmFaulty ==
  /\ env # "ok"
  /\ ccm.open
  /\ IF env \in {"configMissing", "configReadOnly"}
       THEN /\ last' = [ChangeReport("syncObsidianToLogseq.onConfirm") EXCEPT
                          !.toLogseq = ccm.pageNamesArray,
                          !.notice = "Error syncing from Obsidian to Logseq. See console."]
            /\ ccm' = NoCcm
            /\ UNCHANGED <<files, bookmarks, config, direction, bsm, srm, ops,
                           restVars>>
       ELSE CcmConfirm

\* The bookmark another writer adds while a dialog of the plugin is open.
ExternalItem == FileItem(PathOf(Str_notes, Nb))

\* The environment, when no other writer has been at work: a store goes
\* missing, is corrupted or becomes read-only.
EnvFault ==
  /\ env = "ok"
  /\ ~Includes(bookmarks, ExternalItem)
  /\ ~Includes(existingFavorites(config), Nb)
  /\ env' \in Faults
  /\ UNCHANGED <<syncVars, root, contents, folders, vcm, io, checkVars>>

\* Obsidian (or another plugin) bookmarks a file while a dialog is open.
ExternalAddBookmark ==
  /\ env = "ok"
  /\ ~NoModalOpen
  /\ ~Includes(bookmarks, ExternalItem)
  /\ Len(bookmarks) < MaxItems
  /\ bookmarks' = Append(bookmarks, ExternalItem)
  /\ UNCHANGED <<files, config, direction, bsm, srm, ccm, last, ops, restVars>>

\* The config text after another writer put the favorite `name` first in the
\* favorites key (or added the key at the end).
ExternalFavorite(text, name) ==
  LET match == favoritesRegexMatch(text)
      open == match.last - Len(match.group1) - 1
  IN IF match.found
       THEN SubSeq(text, 1, open) \o Q(name) \o <<SP>> \o From(text, open + 1)
       ELSE text \o <<NL>> \o FavoritesText(<<name>>)

\* Logseq marks the page b as a favorite while a dialog is open.
ExternalAddFavorite ==
  /\ env = "ok"
  /\ ~NoModalOpen
  /\ ~Includes(existingFavorites(config), Nb)
  /\ config' = ExternalFavorite(config, Nb)
  /\ UNCHANGED <<files, bookmarks, direction, bsm, srm, ccm, last, ops, restVars>>

\* The handlers of the bookmark sync with an adapter that may fail and with
\* other writers of the two stores.
StoresNext ==
  \/ env = "ok" /\ SyncSettings
  \/ env = "ok" /\ BsmConfirm
  \/ env = "ok" /\ SyncLogseqToObsidian
  \/ env = "ok" /\ SrmSyncSelected
  \/ env = "ok" /\ SyncObsidianToLogseq
  \/ env = "ok" /\ CcmConfirm
  \/ SyncSettingsFaulty
  \/ BsmConfirmFaulty
  \/ SyncLogseqToObsidianFaulty
  \/ SrmSyncSelectedFaulty
  \/ SyncObsidianToLogseqFaulty
  \/ CcmConfirmFaulty
  \/ ClickObsidianView
  \/ ClickLogseqView
  \/ ToggleToAdd
  \/ ToggleToAddHeader
  \/ BsmCancel
  \/ SrmSelect
  \/ SrmToggleMissing
  \/ SrmCancel
  \/ CcmCancel
  \/ EnvFault
  \/ ExternalAddBookmark
  \/ ExternalAddFavorite

SpecStores == StoresInit /\ [][StoresNext]_vars

\* A step of a sync handler that writes the bookmark store (a step of another
\* writer changes no dialog and runs no command).
WrittenBySync ==
  /\ bookmarks' # bookmarks
  /\ bsm' # bsm \/ srm' # srm \/ ops' # ops

\* C11: every write of the bookmark store by a sync operation keeps the
\* items that were in the store when it was re-read, in their order and with
\* all their fields (items of other types included), keeps the other keys of
\* the root object, and appends only items of type "file" at the end.
C11_WriteAppendsFileItemsOnly ==
  [][WrittenBySync =>
       /\ Len(bookmarks') > Len(bookmarks)
       /\ SubSeq(bookmarks', 1, Len(bookmarks)) = bookmarks
       /\ \A k \in (Len(bookmarks) + 1)..Len(bookmarks') : bookmarks'[k].type = "file"
       /\ root' = root]_vars

\* The dialog wrote a store that holds a group and another root key.
C11_Witness ==
  /\ last.op = "executeSync"
  /\ last.wroteBookmarks
  /\ Includes(last.itemsBefore, GroupItem)
  /\ Includes(bookmarks, GroupItem)
  /\ root = OtherKeys
  /\ Len(bookmarks) > Len(last.itemsBefore)

ErrorNotices ==
  {"Obsidian bookmarks not found.", "Logseq config not found.",
   "Error preparing bookmark sync. See console.",
   "Error executing bookmark sync. See console."}

\* The store a failing adapter fails on.
BookmarkFaults == {"bookmarksMissing", "bookmarksUnparsable", "bookmarksReadOnly"}
ConfigFaults == {"configMissing", "configReadOnly"}

\* C14: when a required store is missing, or a read, a parse or a write of a
\* store fails, syncSettings and the dialog's executeSync end with an error
\* notice and write nothing from the failure on: the failing store and the
\* store whose step would have followed are left as they were, and
\* syncSettings opens no dialog.
C14_FailureAbortsWithoutWrite ==
  [][(env # "ok" /\ last' # last /\ last'.op \in {"syncSettings", "executeSync"}) =>
       /\ env \in BookmarkFaults => bookmarks' = bookmarks
       /\ env \in ConfigFaults => config' = config
       /\ last'.notice \in ErrorNotices =>
            /\ bookmarks' = bookmarks
            /\ config' = config
            /\ ~bsm'.open
            /\ ~last'.wroteBookmarks /\ ~last'.wroteConfig
       /\ (last'.op = "syncSettings"
             /\ env \in {"bookmarksMissing", "bookmarksUnparsable", "configMissing"})
            => last'.notice \in ErrorNotices
       /\ (last'.op = "executeSync" /\ env \in BookmarkFaults
             /\ AddUnique(pagesToAddToObsidian(bsm), files, bookmarks).added > 0)
            => last'.notice \in ErrorNotices
       /\ (last'.op = "executeSync" /\ env \in ConfigFaults
             /\ pagesToAddToLogseq(bsm) # <<>>)
            => last'.notice \in ErrorNotices]_vars

\* The write of the bookmark store failed at the confirmation of the dialog.
C14_Witness ==
  /\ last.op = "executeSync"
  /\ env = "bookmarksReadOnly"
  /\ last.submitted # <<>>
  /\ last.notice = "Error executing bookmark sync. See console."
  /\ bookmarks = last.itemsBefore

\* C15: an entry another writer put into the bookmark store or into the
\* favorites list while a sync dialog was open is still there after the
\* confirmed write, which starts from the store as re-read at confirmation.
C15_ExternalEntriesSurviveConfirm ==
  [][/\ Includes(bookmarks, ExternalItem) => Includes(bookmarks', ExternalItem)
     /\ Includes(existingFavorites(config), Nb)
          => Includes(existingFavorites(config'), Nb)
     /\ (config' # config /\ bsm.open /\ ~bsm'.open) =>
          Range(existingFavorites(config')) =
            Range(existingFavorites(config)) \cup Range(pagesToAddToLogseq(bsm))]_vars

\* One command only has run: its dialog was open when the favorite b was
\* written, and the confirmed write kept it.
C15_Witness ==
  /\ ops = 1
  /\ last.op = "executeSync"
  /\ last.wroteConfig
  /\ Includes(existingFavorites(last.configBefore), Nb)
  /\ Includes(existingFavorites(config), Nb)

----------------------------------------------------------------------------
(* The vault check: task markers and namespace file names.                 *)

\* \w of a JavaScript regular expression, over the characters of the model.
IsWordChar(c) ==
  c \notin {NL, SP, QUOTE, "$", "&", "-", ".", "/", ":", ";", "[", "]", "{", "}"}

\* The upper-case form of a letter of the task markers (the i flag).
ToUpperCase(c) ==
  CASE c = "a" -> "A" [] c = "d" -> "D" [] c = "e" -> "E" [] c = "g" -> "G"
    [] c = "i" -> "I" [] c = "l" -> "L" [] c = "n" -> "N" [] c = "o" -> "O"
    [] c = "r" -> "R" [] c = "t" -> "T" [] c = "w" -> "W" [] OTHER -> c

Str_TODO == <<"T", "O", "D", "O">>
Str_DONE == <<"D", "O", "N", "E">>
Str_DOING == <<"D", "O", "I", "N", "G">>
Str_NOW == <<"N", "O", "W">>
Str_LATER == <<"L", "A", "T", "E", "R">>

\* (?:DONE) and (?:TODO|DOING|NOW|LATER), in the order of the alternation.
DoneMarkers == <<Str_DONE>>
OpenMarkers == <<Str_TODO, Str_DOING, Str_NOW, Str_LATER>>

\* Does `marker` stand in `text` at position i, followed by a word boundary
\* (\b) ?  With ignoreCase the letters are compared in upper case.
MarkerAt(text, i, marker, ignoreCase) ==
  /\ i + Len(marker) - 1 <= Len(text)
  /\ \A k \in 1..Len(marker) :
       IF ignoreCase THEN ToUpperCase(text[i + k - 1]) = marker[k]
                     ELSE text[i + k - 1] = marker[k]
  /\ i + Len(marker) > Len(text) \/ ~IsWordChar(text[i + Len(marker)])

\* markerRegex = /\b(TODO|DONE|DOING|NOW|LATER)\b/ .test(content)
markerRegex(content) ==
  \E i \in 1..Len(content) :
    /\ i = 1 \/ ~IsWordChar(content[i - 1])
    /\ \E k \in 1..Len(DoneMarkers \o OpenMarkers) :
         MarkerAt(content, i, (DoneMarkers \o OpenMarkers)[k], FALSE)

\* /^(\s*-?\s*)(?:markers)\b\s*:??\s*/gmi tried at position i: ^ holds at the
\* start of the text and after a newline; the group takes white space, one
\* dash if there is one, and white space; the lazy colon takes nothing and
\* the white space after the marker is taken by the first \s*.  `from` is
\* the start of the marker, `end` the first position after the match.
fixRegexAt(text, i, markers) ==
  LET a == SkipWs(text, i)
      b == IF a <= Len(text) /\ text[a] = "-" THEN a + 1 ELSE a
      c == SkipWs(text, b)
      hits == {k \in 1..Len(markers) : MarkerAt(text, c, markers[k], TRUE)}
      k == CHOOSE k \in hits : \A j \in hits : k <= j
  IN IF (i = 1 \/ text[i - 1] = NL) /\ hits # {}
       THEN [found |-> TRUE, from |-> c, end |-> SkipWs(text, c + Len(markers[k]))]
       ELSE [found |-> FALSE, from |-> 0, end |-> 0]

\* content.replace(regex, repl) with the g flag, scanned from position i:
\* every match, from left to right, replaced by the expansion of repl.
RECURSIVE replaceMarkersFrom(_, _, _, _)
replaceMarkersFrom(text, i, markers, repl) ==
  IF i > Len(text) THEN <<>>
  ELSE LET m == fixRegexAt(text, i, markers)
       IN IF m.found
            THEN GetSubstitution(repl, SubSeq(text, i, m.end - 1),
                                 SubSeq(text, 1, i - 1), From(text, m.end),
                                 SubSeq(text, i, m.from - 1))
                 \o replaceMarkersFrom(text, m.end, markers, repl)
            ELSE <<text[i]>> \o replaceMarkersFrom(text, i + 1, markers, repl)

\* '$1- [x] ' and '$1- [ ] '
Repl_checked == <<"$", "1", "-", " ", "[", "x", "]", " ">>
Repl_unchecked == <<"$", "1", "-", " ", "[", " ", "]", " ">>

\* applyFixes, 'content-replace': DONE to the checked prefix, then TODO,
\* DOING, NOW and LATER to the unchecked prefix.
contentReplace(content) ==
  replaceMarkersFrom(replaceMarkersFrom(content, 1, DoneMarkers, Repl_checked),
                     1, OpenMarkers, Repl_unchecked)

\* content.indexOf(sub, from - 1), 1-based: 0 when there is none.
RECURSIVE IndexOf(_, _, _)
IndexOf(text, sub, from) ==
  IF from + Len(sub) - 1 > Len(text) THEN 0
  ELSE IF LitAt(text, from, sub) THEN from
  ELSE IndexOf(text, sub, from + 1)

Str_sep == <<"_", "_", "_">>
Str_dashes == <<"-", "-", "-">>
Str_tags == <<"t", "a", "g", "s", ":", " ">>

\* fileName.replace(/\.md$/, '')
StripMd(fileName) ==
  IF Len(fileName) >= 3 /\ LitAt(fileName, Len(fileName) - 2, Str_md)
    THEN SubSeq(fileName, 1, Len(fileName) - 3) ELSE fileName

\* String.prototype.split('___')
RECURSIVE Split(_, _)
Split(str, sep) ==
  LET i == IndexOf(str, sep, 1)
  IN IF i = 0 THEN <<str>>
     ELSE <<SubSeq(str, 1, i - 1)>> \o Split(From(str, i + Len(sep)), sep)

\* getPagesFolder()
pagesFolder == Str_pages

\* file.path.startsWith(pagesFolder + '/') && fileName.includes('___')
\*   && !fileName.startsWith('.') && parts.length > 1
IsNamespaceFile(file) ==
  /\ LitAt(file.path, 1, pagesFolder \o <<"/">>)
  /\ IndexOf(file.basename, Str_sep, 1) # 0
  /\ file.basename[1] # "."

parts(fileName) == Split(StripMd(fileName), Str_sep)
finalName(fileName) == parts(fileName)[Len(parts(fileName))]
namespacePath(fileName) ==
  Join(SubSeq(parts(fileName), 1, Len(parts(fileName)) - 1), <<"/">>)
newPath(fileName) == PathOf(pagesFolder, finalName(fileName))

\* `tags: ${namespacePath}`
tagsLine(nsPath) == Str_tags \o nsPath

\* applyFixes, 'namespace-rename': the content with the tags line.
namespaceContent(content, nsPath) ==
  LET hasFrontmatter == LitAt(content, 1, Str_dashes)
      frontmatterEnd == IndexOf(content, Str_dashes, 4)
  IN IF IndexOf(content, tagsLine(nsPath), 1) # 0 THEN content
     ELSE IF hasFrontmatter /\ frontmatterEnd # 0
       THEN SubSeq(content, 1, frontmatterEnd + 2) \o <<NL>> \o tagsLine(nsPath)
            \o <<NL>> \o From(content, frontmatterEnd + 3)
     ELSE tagsLine(nsPath) \o <<NL, NL>> \o content

----------------------------------------------------------------------------
(* The vault check as a state machine.                                     *)

Nproj_sub_page ==
  <<"p", "r", "o", "j", "_", "_", "_", "s", "u", "b", "_", "_", "_", "p",
    "a", "g", "e">>
Na_page == <<"a", "_", "_", "_", "p", "a", "g", "e">>
Nb_page == <<"b", "_", "_", "_", "p", "a", "g", "e">>
Npage == <<"p", "a", "g", "e">>
Str_proj_sub == <<"p", "r", "o", "j", "/", "s", "u", "b">>

\* File contents with task markers.
Txt_todo == <<"T", "O", "D", "O", " ", "b", "u", "y", " ", "m", "i", "l", "k">>
Txt_done == <<"D", "O", "N", "E", " ", "b", "u", "y", " ", "m", "i", "l", "k">>
Txt_dash_todo == <<"-", " ", "T", "O", "D", "O", " ", "b", "u", "y", " ", "m", "i", "l", "k">>
Txt_dash_done == <<"-", " ", "D", "O", "N", "E", " ", "b", "u", "y", " ", "m", "i", "l", "k">>
\* a marker alone on its line, and a lower-case marker
Txt_bare_todo == <<"T", "O", "D", "O", "\n", "b", "u", "y", " ", "m", "i", "l", "k">>
Txt_mixed == <<"N", "O", "W", " ", "g", "o", "\n", "d", "o", "n", "e", " ", "x">>
TaskTexts ==
  {Txt_todo, Txt_done, Txt_dash_todo, Txt_dash_done, Txt_bare_todo, Txt_mixed}

\* File contents of namespace files: plain, with frontmatter, with
\* frontmatter whose value holds three dashes, and a text that mentions
\* the tags of a longer namespace.
Txt_plain == <<"x">>
Txt_frontmatter == <<"-", "-", "-", "\n", "k", ":", " ", "v", "\n", "-", "-", "-", "\n", "x">>
Txt_dashes_inside ==
  <<"-", "-", "-", "\n", "k", ":", " ", "a", "-", "-", "-", "b", "\n", "-",
    "-", "-", "\n", "x">>
Txt_mentions_tags ==
  <<"s", "e", "e", " ", "t", "a", "g", "s", ":", " ", "p", "r", "o", "j",
    "/", "s", "u", "b", "s">>
NamespaceTexts == {Txt_plain, Txt_frontmatter, Txt_dashes_inside, Txt_mentions_tags}

\* The text another editor appends to a file.
Txt_new == <<"\n", "n", "e", "w">>

\* The vaults the check starts from: the markdown files and their contents.
Vaults ==
  { [files |-> <<TFile(Str_pages, Nproj_sub_page), TFile(Str_notes, Nx)>>,
     contents |-> <<ns, task>>] : ns \in NamespaceTexts, task \in TaskTexts }
  \cup
  { [files |-> <<TFile(Str_pages, Na_page), TFile(Str_pages, Nb_page)>>,
     contents |-> <<Txt_plain, Txt_todo>>],
    [files |-> <<TFile(Str_pages, Nproj_sub_page), TFile(Str_pages, Npage)>>,
     contents |-> <<Txt_plain, Txt_plain>>] }

VaultInit ==
  /\ \E v \in Vaults : files = v.files /\ contents = v.contents
  /\ folders = {Str_pages, Str_notes}
  /\ vcm = NoVcm
  /\ io = NoIo
  /\ settings = FileChecksOnly
  /\ configDir = NoConfigDir
  /\ runs = <<>>
  /\ commands = Registered(DEFAULT_SETTINGS)
  /\ inject = NoInject
  /\ bookmarks = <<>>
  /\ config = <<>>
  /\ direction = "obsidian-to-logseq"
  /\ bsm = NoBsm
  /\ srm = NoSrm
  /\ ccm = NoCcm
  /\ last = NoReport
  /\ ops = 0
  /\ root = NoOtherKeys
  /\ env = "ok"

\* str.replace(/pat/g, repl) for a pattern that is a literal text.
RECURSIVE ReplaceAll(_, _, _)
ReplaceAll(text, pat, repl) ==
  IF text = <<>> THEN <<>>
  ELSE IF LitAt(text, 1, pat)
    THEN repl \o ReplaceAll(From(text, Len(pat) + 1), pat, repl)
  ELSE <<text[1]>> \o ReplaceAll(Tail(text), pat, repl)

Str_titleFormat ==
  <<":", "j", "o", "u", "r", "n", "a", "l", "/", "p", "a", "g", "e", "-",
    "t", "i", "t", "l", "e", "-", "f", "o", "r", "m", "a", "t">>

\* /:journal\/page-title-format\s+"([^"]+)"/ tried at position i: the text
\* of group 1, or the empty text when the regex does not match there.
titleFormatAt(text, i) ==
  LET ws == i + Len(Str_titleFormat)
      open == SkipWs(text, ws)
      close == FirstIdx(text, open + 1, QUOTE)
  IN IF /\ LitAt(text, i, Str_titleFormat)
        /\ open > ws
        /\ open <= Len(text) /\ text[open] = QUOTE
        /\ close > open + 1
       THEN SubSeq(text, open + 1, close - 1)
       ELSE <<>>

\* 'yyyy-MM-dd', the format taken when config.edn names none.
Fmt_default == <<"y", "y", "y", "y", "-", "M", "M", "-", "d", "d">>

\* The date format of Logseq: group 1 of the first match of the regex in
\* the code lines of config.edn, or the default.
logseqDateFormat(cfg) ==
  LET text == codeText(cfg)
      hits == {i \in 1..Len(text) : titleFormatAt(text, i) # <<>>}
  IN IF hits = {} THEN Fmt_default
     ELSE titleFormatAt(text, CHOOSE i \in hits : \A j \in hits : i <= j)

\* A variant of expectedObsDailyFormat that keeps the underscores.
expectedObsDailyFormat_KeepsUnderscores(format) ==
  ReplaceAll(ReplaceAll(ReplaceAll(format, <<"y", "y", "y", "y">>, <<"Y", "Y", "Y", "Y">>),
                        <<"M", "M">>, <<"M", "M">>),
             <<"d", "d">>, <<"D", "D">>)

\* logseqDateFormat.replace(/yyyy/g, 'YYYY').replace(/MM/g, 'MM')
\*   .replace(/dd/g, 'DD').replace(/_/g, '-')
expectedObsDailyFormat(format) ==
  ReplaceAll(
    ReplaceAll(
      ReplaceAll(
        ReplaceAll(format, <<"y", "y", "y", "y">>, <<"Y", "Y", "Y", "Y">>),
        <<"M", "M">>, <<"M", "M">>),
      <<"d", "d">>, <<"D", "D">>),
    <<"_">>, <<"-">>)

\* null, and every other value `x || null` turns into null.
Null == <<>>

\* j[key] || null for the object of a parsed JSON file.
Get(data, key) ==
  IF \E k \in 1..Len(data) : data[k].key = key
    THEN data[CHOOSE k \in 1..Len(data) : data[k].key = key].value
    ELSE Null

\* a || b
Or(a, b) == IF a # Null THEN a ELSE b

\* The object a JSON file of the config directory is read as by the scan:
\* nothing is taken from a file that is absent or does not parse.
Parsed(file) == IF file.exists /\ file.parses THEN file.data ELSE <<>>

\* The options of the daily notes plugin without the fallback to the file.
obsDaily_LiveOnly(cd, key) == Get(cd.options, key)

\* obsDailyFormat and obsDailyFolder: the options of the daily notes plugin,
\* then daily-notes.json when one of the two is not set.
obsDaily(cd, key) ==
  LET fromOptions == Get(cd.options, key)
      fallback == Get(cd.options, "format") = Null \/ Get(cd.options, "folder") = Null
  IN IF fallback THEN Or(fromOptions, Get(Parsed(cd.daily), key)) ELSE fromOptions

Str_journals == <<"j", "o", "u", "r", "n", "a", "l", "s">>
Str_folder == <<"f", "o", "l", "d", "e", "r">>

\* A Settings issue with its 'settings-update' fix.
SettingsIssue(target, key, value) ==
  [file |-> 0, type |-> "Settings",
   fixData |-> [type |-> "settings-update", target |-> target, key |-> key,
                value |-> value]]

\* A variant of SettingsIssues that checks the daily notes before app.json.
SettingsIssues_DailyNotesFirst(cd, cfg) ==
  LET expected == expectedObsDailyFormat(logseqDateFormat(cfg))
  IN (IF obsDaily(cd, "folder") # Str_journals
        THEN <<SettingsIssue("daily-notes.json", "folder", Str_journals)>> ELSE <<>>)
     \o (IF obsDaily(cd, "format") # expected
           THEN <<SettingsIssue("daily-notes.json", "format", expected)>>
           ELSE <<>>)
     \o (IF Get(Parsed(cd.app), "newFileFolderPath") # Str_pages
           THEN <<SettingsIssue("app.json", "newFileFolderPath", Str_pages)>> ELSE <<>>)
     \o (IF Get(Parsed(cd.app), "newFileLocation") # Str_folder
           THEN <<SettingsIssue("app.json", "newFileLocation", Str_folder)>> ELSE <<>>)

\* runVaultCheckCommand, the settings check: the four comparisons in the
\* order of the code.
SettingsIssues(cd, cfg) ==
  LET expected == expectedObsDailyFormat(logseqDateFormat(cfg))
      appNewFileLocation == Get(Parsed(cd.app), "newFileLocation")
      appNewFileFolderPath == Get(Parsed(cd.app), "newFileFolderPath")
  IN (IF appNewFileFolderPath # Str_pages
        THEN <<SettingsIssue("app.json", "newFileFolderPath", Str_pages)>> ELSE <<>>)
     \o (IF appNewFileLocation # Str_folder
           THEN <<SettingsIssue("app.json", "newFileLocation", Str_folder)>> ELSE <<>>)
     \o (IF obsDaily(cd, "folder") # Str_journals
           THEN <<SettingsIssue("daily-notes.json", "folder", Str_journals)>> ELSE <<>>)
     \o (IF obsDaily(cd, "format") # expected
           THEN <<SettingsIssue("daily-notes.json", "format", expected)>>
           ELSE <<>>)

\* The issue of the namespace check for files[k].
NamespaceIssue(fs, k) ==
  [file |-> k, type |-> "Namespace",
   fixData |-> [type |-> "namespace-rename",
                newPath |-> newPath(fs[k].basename),
                namespacePath |-> namespacePath(fs[k].basename),
                originalName |-> fs[k].basename]]

\* The issue of the task marker check for files[k]: it carries the content
\* read by the scan.
TaskMarkerIssue(k, content) ==
  [file |-> k, type |-> "Task Marker",
   fixData |-> [type |-> "content-replace", content |-> content]]

\* runVaultCheckCommand: the loop `for (const file of files)` up to file k,
\* the namespace check and the task marker check each under its flag.
RECURSIVE Scan(_, _, _)
Scan(fs, texts, k) ==
  IF k = 0 THEN <<>>
  ELSE Scan(fs, texts, k - 1)
       \o (IF /\ settings.enableVaultNamespaceCheck
              /\ IsNamespaceFile(fs[k]) /\ Len(parts(fs[k].basename)) > 1
             THEN <<NamespaceIssue(fs, k)>> ELSE <<>>)
       \o (IF settings.enableVaultTaskMarkerCheck /\ markerRegex(texts[k])
             THEN <<TaskMarkerIssue(k, texts[k])>> ELSE <<>>)

\* runVaultCheckCommand: the issues of the settings check, under its flag,
\* then the issues of the files.
Issues ==
  (IF settings.enableVaultFolderSettingsCheck
     THEN SettingsIssues(configDir, config) ELSE <<>>)
  \o Scan(files, contents, Len(files))

\* The positions of ks whose issue has fixData.
Fixable(issues, ks) == SelectSeq(ks, LAMBDA k : issues[k].fixData # Null)

\* VaultCheckResolutionModal constructor: every issue with fixData selected.
NewVaultCheckResolutionModal(issues, simulation) ==
  [open |-> TRUE, confirming |-> FALSE, issues |-> issues,
   selectedIssues |-> Fixable(issues, [k \in 1..Len(issues) |-> k]),
   simulation |-> simulation]

\* runVaultCheckCommand (the command 'Vault check'): the dialog of the
\* issues, or the message that there is none.
RunVaultCheck ==
  /\ ~vcm.open
  /\ vcm' = IF Issues # <<>> THEN NewVaultCheckResolutionModal(Issues, FALSE) ELSE vcm
  /\ UNCHANGED <<files, contents, folders, io, syncVars, root, env, checkVars>>

\* checkbox.onchange of one issue; an issue without fixData has no checkbox.
VcmToggleIssue ==
  /\ vcm.open /\ ~vcm.confirming
  /\ \E k \in 1..Len(vcm.issues) :
       /\ vcm.issues[k].fixData # Null
       /\ vcm' = [vcm EXCEPT !.selectedIssues =
                 IF Includes(@, k) THEN SetDelete(@, k) ELSE SetAdd(@, k)]
  /\ UNCHANGED <<files, contents, folders, io, syncVars, root, env, checkVars>>

\* The positions of the issues of one type, in the order of the list.
RECURSIVE GroupOf(_, _, _)
GroupOf(issues, type, k) ==
  IF k = 0 THEN <<>>
  ELSE GroupOf(issues, type, k - 1)
       \o (IF issues[k].type = type THEN <<k>> ELSE <<>>)

\* groupCheckbox.onchange: checked when every issue of the group was
\* selected; the click selects the group, or deselects it.
VcmToggleGroup ==
  /\ vcm.open /\ ~vcm.confirming
  /\ \E type \in {"Settings", "Date", "Namespace", "Task Marker"} :
       LET items == GroupOf(vcm.issues, type, Len(vcm.issues))
           wasChecked == \A j \in 1..Len(items) : Includes(vcm.selectedIssues, items[j])
       IN /\ items # <<>>
          /\ vcm' = [vcm EXCEPT !.selectedIssues =
                       IF wasChecked THEN Without(@, items)
                       ELSE AddAll(@, Fixable(vcm.issues, items))]
  /\ UNCHANGED <<files, contents, folders, io, syncVars, root, env, checkVars>>

\* selectAllBtn.onclick
VcmSelectAll ==
  /\ vcm.open /\ ~vcm.confirming
  /\ vcm' = [vcm EXCEPT !.selectedIssues =
               AddAll(@, Fixable(vcm.issues, [k \in 1..Len(vcm.issues) |-> k]))]
  /\ UNCHANGED <<files, contents, folders, io, syncVars, root, env, checkVars>>

\* deselectAllBtn.onclick
VcmDeselectAll ==
  /\ vcm.open /\ ~vcm.confirming
  /\ vcm' = [vcm EXCEPT !.selectedIssues = <<>>]
  /\ UNCHANGED <<files, contents, folders, io, syncVars, root, env, checkVars>>

\* fixBtn.onclick: the confirmation 'Apply selected fixes?' opens; in
\* simulation mode the Notice and nothing else.
VcmApply ==
  /\ vcm.open /\ ~vcm.confirming
  /\ IF vcm.simulation
       THEN /\ last' = [Report("VaultCheckResolutionModal.fixBtn") EXCEPT
                          !.notice = "Simulation mode: no changes will be made."]
            /\ vcm' = vcm
       ELSE /\ vcm' = [vcm EXCEPT !.confirming = TRUE]
            /\ last' = last
  /\ UNCHANGED <<files, contents, folders, io, bookmarks, config, direction,
                 bsm, srm, ccm, ops, root, env, checkVars>>

\* cancelBtn.onclick of the confirmation.
VcmCancelApply ==
  /\ vcm.open /\ vcm.confirming
  /\ vcm' = [vcm EXCEPT !.confirming = FALSE]
  /\ UNCHANGED <<files, contents, folders, io, syncVars, root, env, checkVars>>

\* cancelBtn.onclick ('Close') of the dialog.
VcmClose ==
  /\ vcm.open /\ ~vcm.confirming
  /\ vcm' = NoVcm
  /\ UNCHANGED <<files, contents, folders, io, syncVars, root, env, checkVars>>

\* One vault operation of applyFixes(): `read` is the content of the file
\* before the operation, `content` the content read or written, `to` the
\* destination of a rename, ok whether the operation went through and
\* `issue` the issue it was done for.
IoEntry(op, k, path, read, content, to, ok, issue) ==
  [op |-> op, file |-> k, path |-> path, read |-> read, content |-> content,
   to |-> to, ok |-> ok, fix |-> issue.fixData.type, issue |-> issue]

\* A variant of contentToFix that takes the content the scan captured.
contentToFix_Snapshot(issue, read) == issue.fixData.content

\* let content = await this.app.vault.read(issue.file)
contentToFix(issue, read) == read

\* Does the vault reject every write (a read-only vault) ?
ReadOnly == env = "vaultReadOnly"

\* A variant of settingsUpdate that writes an object with the one key only.
settingsUpdate_FreshObject(st, issue) ==
  LET target == issue.fixData.target
      file == IF target = "app.json" THEN st.configDir.app ELSE st.configDir.daily
      written == JsonFile(<<Entry(issue.fixData.key, issue.fixData.value)>>)
      log == Append(st.log, IoEntry("write", 0, <<>>, file, written, <<>>, ~ReadOnly, issue))
  IN IF ReadOnly THEN [st EXCEPT !.log = log]
     ELSE IF target = "app.json"
       THEN [st EXCEPT !.configDir.app = written, !.log = log]
     ELSE [st EXCEPT !.configDir.daily = written, !.log = log]

\* applyFixes, 'settings-update': the object of the target file, an empty
\* object when the file is absent or does not parse, is given the key and
\* written back; a failure of the write is caught on the spot.
settingsUpdate(st, issue) ==
  LET target == issue.fixData.target
      file == IF target = "app.json" THEN st.configDir.app ELSE st.configDir.daily
      data == MapSet(Parsed(file), issue.fixData.key, issue.fixData.value)
      written == JsonFile(data)
      log == Append(st.log, IoEntry("write", 0, <<>>, file, written, <<>>, ~ReadOnly, issue))
  IN IF ReadOnly THEN [st EXCEPT !.log = log]
     ELSE IF target = "app.json"
       THEN [st EXCEPT !.configDir.app = written, !.log = log]
     ELSE [st EXCEPT !.configDir.daily = written, !.log = log]

\* applyFixes: the body of the loop for one selected issue.  st holds the
\* files, the contents, the config directory, the log and the two counts.
\* An operation the vault rejects throws, and the catch block of the loop
\* body ends the fix of that issue.
ApplyFix(st, issue) ==
  LET k == issue.file
      path == st.files[k].path
      read == st.contents[k]
      fix == issue.fixData.type
  IN IF fix = "settings-update" THEN settingsUpdate(st, issue)
     ELSE IF fix = "content-replace"
       THEN LET content == contentReplace(contentToFix(issue, read))
                log == st.log
                       \o << IoEntry("read", k, path, read, read, <<>>, TRUE, issue),
                             IoEntry("modify", k, path, read, content, <<>>, ~ReadOnly, issue) >>
            IN IF ReadOnly THEN [st EXCEPT !.log = log]
               ELSE [st EXCEPT !.contents[k] = content, !.log = log,
                               !.contentCount = @ + 1]
     ELSE LET to == issue.fixData.newPath
              content == namespaceContent(read, issue.fixData.namespacePath)
              ok == ~Exists(st.files, to)
              log == st.log
                     \o << IoEntry("read", k, path, read, read, <<>>, TRUE, issue),
                           IoEntry("modify", k, path, read, content, <<>>, ~ReadOnly, issue) >>
                     \o (IF ReadOnly THEN <<>>
                         ELSE << IoEntry("rename", k, path, content, content, to, ok, issue) >>)
          IN IF ReadOnly THEN [st EXCEPT !.log = log]
             ELSE IF ok
               THEN [st EXCEPT
                       !.contents[k] = content,
                       !.files[k] = [path |-> to,
                                     basename |-> finalName(issue.fixData.originalName)],
                       !.log = log,
                       !.renameCount = @ + 1,
                       !.contentCount = @ + 1]
               ELSE [st EXCEPT !.contents[k] = content, !.log = log]

\* A variant of ApplyFixes that leaves the loop at the first fix that fails.
RECURSIVE ApplyFixes_StopAtFailure(_, _, _)
ApplyFixes_StopAtFailure(st, issues, selected) ==
  IF selected = <<>> THEN st
  ELSE LET next == ApplyFix(st, issues[selected[1]])
       IN IF ~next.log[Len(next.log)].ok THEN next
          ELSE ApplyFixes_StopAtFailure(next, issues, Tail(selected))

\* applyFixes() going through this.issues instead of the selection.
RECURSIVE ApplyFixes_AllIssues(_, _, _)
ApplyFixes_AllIssues(st, issues, selected) ==
  IF issues = <<>> THEN st
  ELSE ApplyFixes_AllIssues(ApplyFix(st, issues[1]), Tail(issues), selected)

\* applyFixes: for (const issue of Array.from(this.selectedIssues))
RECURSIVE ApplyFixes(_, _, _)
ApplyFixes(st, issues, selected) ==
  IF selected = <<>> THEN st
  ELSE ApplyFixes(ApplyFix(st, issues[selected[1]]), issues, Tail(selected))

\* The state applyFixes() starts from.
ApplyState ==
  [files |-> files, contents |-> contents, configDir |-> configDir,
   log |-> <<>>, renameCount |-> 0, contentCount |-> 0]

\* confirmBtn.onclick of the confirmation: applyFixes(), then close().
VcmConfirmApply ==
  /\ vcm.open /\ vcm.confirming
  /\ LET st == ApplyFixes(ApplyState, vcm.issues, vcm.selectedIssues)
     IN /\ files' = st.files
        /\ contents' = st.contents
        /\ configDir' = st.configDir
        /\ io' = [log |-> st.log, renameCount |-> st.renameCount,
                  contentCount |-> st.contentCount]
  /\ vcm' = NoVcm
  /\ UNCHANGED <<folders, bookmarks, config, direction, bsm, srm, ccm, last, ops,
                 root, env, settings, runs, commands, inject>>

\* Does the text end with `suffix` ?
EndsWith(text, suffix) ==
  Len(text) >= Len(suffix) /\ From(text, Len(text) - Len(suffix) + 1) = suffix

\* Another editor appends a line to a file while the dialog is open.
ExternalEdit ==
  /\ vcm.open
  /\ \E k \in 1..Len(files) :
       /\ ~EndsWith(contents[k], Txt_new)
       /\ contents' = [contents EXCEPT ![k] = @ \o Txt_new]
  /\ UNCHANGED <<files, folders, vcm, io, syncVars, root, env, checkVars>>

VaultNext ==
  \/ RunVaultCheck
  \/ VcmToggleIssue
  \/ VcmToggleGroup
  \/ VcmSelectAll
  \/ VcmDeselectAll
  \/ VcmApply
  \/ VcmCancelApply
  \/ VcmClose
  \/ VcmConfirmApply
  \/ ExternalEdit

SpecVault == VaultInit /\ [][VaultNext]_vars

----------------------------------------------------------------------------
(* Properties of the vault check.                                          *)

\* The writes of applyFixes() for issues of one kind of fix.
Writes(fix) ==
  {k \in 1..Len(io.log) : io.log[k].op = "modify" /\ io.log[k].fix = fix}

Str_checked == <<"-", " ", "[", "x", "]", " ">>
Str_unchecked == <<"-", " ", "[", " ", "]", " ">>

\* The task line for a text that has a marker at position i: the prefix and
\* the text after the marker and the blanks that follow it.
TaskLineAt(line, i) ==
  LET all == DoneMarkers \o OpenMarkers
      k == CHOOSE k \in 1..Len(all) : MarkerAt(line, i, all[k], TRUE)
      rest == From(line, SkipWs(line, i + Len(all[k])))
  IN (IF k = 1 THEN Str_checked ELSE Str_unchecked) \o rest

HasMarkerAt(line, i, ignoreCase) ==
  \E k \in 1..Len(DoneMarkers \o OpenMarkers) :
    MarkerAt(line, i, (DoneMarkers \o OpenMarkers)[k], ignoreCase)

\* C16: a line that starts with TODO, DOING, NOW or LATER is rewritten to
\* the unchecked-task prefix and a line that starts with DONE to the
\* checked-task prefix, each followed by the text after the marker:
\* `TODO buy milk` becomes `- [ ] buy milk`, `DONE buy milk` becomes
\* `- [x] buy milk`.
C16_MarkerLineBecomesTaskLine ==
  \A w \in Writes("content-replace") :
    LET before == lines(io.log[w].read)
        after == lines(io.log[w].content)
    IN \A j \in 1..Len(before) :
         HasMarkerAt(before[j], 1, FALSE) =>
           /\ j <= Len(after)
           /\ after[j] = TaskLineAt(before[j], 1)

\* C17: a line that starts with a list dash and a task marker is rewritten,
\* dash included, to a single task prefix followed by the text after the
\* marker: `- TODO buy milk` becomes `- [ ] buy milk`, `- DONE buy milk`
\* becomes `- [x] buy milk`, in any letter case.
C17_DashAndMarkerBecomeOnePrefix ==
  \A w \in Writes("content-replace") :
    LET before == lines(io.log[w].read)
        after == lines(io.log[w].content)
    IN \A j \in 1..Len(before) :
         (LitAt(before[j], 1, <<"-", SP>>) /\ HasMarkerAt(before[j], 3, TRUE)) =>
           /\ j <= Len(after)
           /\ after[j] = TaskLineAt(before[j], 3)

\* C18: the content-replace fix is computed from the content of the file as
\* it is when the fix is applied, not from the content the scan captured:
\* what another editor added in between is in the written text, and the
\* written text is the apply-time text with its marker prefixes rewritten.
C18_FixUsesContentAtApplyTime ==
  \A w \in Writes("content-replace") :
    /\ io.log[w].content = contentReplace(io.log[w].read)
    /\ EndsWith(io.log[w].read, Txt_new) => EndsWith(io.log[w].content, Txt_new)

\* A fix was applied to a file that had changed since the scan.
C18_Witness ==
  \E w \in Writes("content-replace") :
    /\ io.log[w].issue.fixData.content # io.log[w].read
    /\ EndsWith(io.log[w].read, Txt_new)
    /\ EndsWith(io.log[w].content, Txt_new)
    /\ io.log[w].content # io.log[w].read

\* The renames of applyFixes().
Renames == {k \in 1..Len(io.log) : io.log[k].op = "rename"}

\* C19: the namespace fix of pages/proj___sub___page.md proposes the new
\* path pages/page.md and the namespace path proj/sub; once it is applied
\* the file is at the new path, no file is at the old path and, the content
\* having no frontmatter, the written content starts with the line
\* `tags: proj/sub` and ends with the original content.
C19_NamespaceFixMovesAndTags ==
  \A r \in Renames :
    LET e == io.log[r]
    IN e.issue.fixData.originalName = Nproj_sub_page =>
         /\ e.to = PathOf(Str_pages, Npage)
         /\ e.issue.fixData.namespacePath = Str_proj_sub
         /\ e.ok
         /\ ~Exists(files, e.path)
         /\ files[e.file].path = e.to
         /\ ~LitAt(e.read, 1, Str_dashes) =>
              /\ LitAt(e.content, 1, tagsLine(Str_proj_sub) \o <<NL>>)
              /\ EndsWith(e.content, io.log[r - 1].read)

\* s.substring(0, s.lastIndexOf('/')): the parent folder of a path.
RECURSIVE ParentOf(_)
ParentOf(path) ==
  IF path = <<>> THEN <<>>
  ELSE IF path[Len(path)] = "/" THEN SubSeq(path, 1, Len(path) - 1)
  ELSE ParentOf(SubSeq(path, 1, Len(path) - 1))

\* The line of the closing frontmatter delimiter: the first line `---`
\* after a first line `---`; 0 when the text has no frontmatter.
ClosingDelimiter(ls) ==
  IF ls[1] = Str_dashes /\ \E j \in 2..Len(ls) : ls[j] = Str_dashes
    THEN CHOOSE j \in 2..Len(ls) :
           ls[j] = Str_dashes /\ \A i \in 2..(j - 1) : ls[i] # Str_dashes
    ELSE 0

\* Every rename of a namespace fix comes right after the write of the
\* content, and the parent folder of its destination exists.
WriteBeforeRename ==
  \A r \in Renames :
    /\ r > 1
    /\ io.log[r - 1].op = "modify"
    /\ io.log[r - 1].file = io.log[r].file
    /\ io.log[r - 1].content = io.log[r].read
    /\ ParentOf(io.log[r].to) \in folders

\* C20: the namespace fix writes the content with the tags line before it
\* renames the file, the parent folder of the destination exists at the
\* rename, and the tags line is the line after the closing frontmatter
\* delimiter when the content starts with frontmatter, else the first line.
C20_TagsWrittenThenRenamed ==
  /\ WriteBeforeRename
  /\ \A w \in Writes("namespace-rename") :
       LET before == lines(io.log[w].read)
           after == lines(io.log[w].content)
           close == ClosingDelimiter(before)
           tags == tagsLine(io.log[w].issue.fixData.namespacePath)
       IN /\ Len(after) > close
          /\ after[close + 1] = tags
          /\ SubSeq(after, 1, close) = SubSeq(before, 1, close)

\* C21: the namespace fix of a selected issue is all or nothing: after
\* applyFixes either the tags line is in the content and the file is at the
\* new path, or the content and the path are as they were before, also
\* when the rename of the fix is rejected.
C21_FixIsAllOrNothing ==
  \A r \in Renames :
    LET e == io.log[r]
        w == io.log[r - 1]
        tags == tagsLine(e.issue.fixData.namespacePath)
    IN \/ e.ok /\ IndexOf(w.content, tags, 1) # 0
       \/ ~e.ok /\ w.content = w.read

\* onOpen: the order in which the dialog lists the issues, as positions of
\* `issues`: one section per type, the types in the order of their first
\* issue, the issues of a section in the order of the list.
RECURSIVE SectionsOf(_, _)
SectionsOf(issues, types) ==
  IF types = <<>> THEN <<>>
  ELSE GroupOf(issues, types[1], Len(issues)) \o SectionsOf(issues, Tail(types))

presented(issues) ==
  SectionsOf(issues, Dedup([k \in 1..Len(issues) |-> issues[k].type]))

\* The place of an issue in the order the dialog lists the issues in.
PlaceOf(issues, issue) ==
  LET order == presented(issues)
  IN CHOOSE n \in 1..Len(order) : issues[order[n]] = issue

\* C23: applyFixes processes the selected issues in the order the dialog
\* presented them in, whatever selections and deselections came before
\* the Apply.
C23_AppliedInPresentedOrder ==
  [][(vcm.confirming /\ vcm' = NoVcm) =>
       \A i, j \in 1..Len(io'.log) :
         i < j => PlaceOf(vcm.issues, io'.log[i].issue)
                    <= PlaceOf(vcm.issues, io'.log[j].issue)]_vars

\* Does the store hold a bookmark for the path?
Bookmarked(items, path) == \E i \in 1..Len(items) : items[i].path = path

\* C30: on 'Sync selected' every missing name still ticked ends with a page
\* file at <new-file folder>/<name>.md, created only when no file was there,
\* and with a bookmark for that path; for a missing name the user unticked
\* no file is created and no bookmark is added.  Files that existed stay
\* as they were.
C30_TickedMissingCreatedAndBookmarked ==
  [][(srm.open /\ ~srm'.open /\ last'.op = "SyncResolutionModal.executeSync") =>
       /\ SubSeq(files', 1, Len(files)) = files
       /\ \A k \in 1..Len(srm.missingPages) :
            LET name == srm.missingPages[k]
                targetPath == PathOf(NewFileParent, name)
            IN IF Includes(srm.selectedMissing, name)
                 THEN /\ Exists(files', targetPath)
                      /\ Bookmarked(bookmarks', targetPath)
                      /\ Len(SelectSeq(files', LAMBDA f : f.path = targetPath)) = 1
                 ELSE /\ Exists(files', targetPath) <=> Exists(files, targetPath)
                      /\ Bookmarked(bookmarks', targetPath)
                           <=> Bookmarked(bookmarks, targetPath)]_vars

\* 'Sync selected' with the missing page a ticked and the missing page b
\* unticked: a has its file and its bookmark, b has neither.
C30_Witness ==
  /\ last.op = "SyncResolutionModal.executeSync"
  /\ last.selectedMissing = <<Na>>
  /\ last.createdCount = 1
  /\ Includes(existingFavorites(config), Nb)
  /\ Exists(files, PathOf(NewFileParent, Na))
  /\ Bookmarked(bookmarks, PathOf(NewFileParent, Na))
  /\ ~Exists(files, PathOf(NewFileParent, Nb))
  /\ ~Bookmarked(bookmarks, PathOf(NewFileParent, Nb))

----------------------------------------------------------------------------
(* The scan of the vault check with its settings check.                    *)

\* Daily note formats and folders of Obsidian.
Fmt_YMD == <<"Y", "Y", "Y", "Y", "-", "M", "M", "-", "D", "D">>
Fmt_YMd == <<"Y", "Y", "Y", "Y", "-", "M", "M", "-", "d", "d">>
Fmt_DMY == <<"D", "D", "-", "M", "M", "-", "Y", "Y", "Y", "Y">>
Str_daily == <<"d", "a", "i", "l", "y">>
Str_keep == <<"k", "e", "e", "p">>

\* config.edn texts: no title format, yyyy_MM_dd, dd-MM-yyyy, MMM do, yyyy
\* on the line after the key, and a title format in a comment line only.
Cfg_underscores ==
  <<"{">> \o Str_titleFormat \o <<SP>> \o Q(<<"y", "y", "y", "y", "_", "M", "M", "_", "d", "d">>) \o <<"}">>
Cfg_dayFirst ==
  <<"{">> \o Str_titleFormat \o <<SP>> \o Q(<<"d", "d", "-", "M", "M", "-", "y", "y", "y", "y">>) \o <<"}">>
Cfg_monthName ==
  <<"{">> \o Str_titleFormat \o <<NL, SP>> \o Q(<<"M", "M", "M", " ", "d", "o", ",", " ", "y", "y", "y", "y">>) \o <<"}">>
Cfg_commented ==
  <<";", ";", SP>> \o Str_titleFormat \o <<SP>> \o Q(<<"d", "d", "-", "M", "M", "-", "y", "y", "y", "y">>) \o <<NL>> \o Cfg_nokey
FormatConfigs ==
  {Cfg_nokey, Cfg_underscores, Cfg_dayFirst, Cfg_monthName, Cfg_commented}

\* app.json: absent, not parsable, an empty object, as Logseq expects it
\* with a key of another feature, and with another folder.
AppFiles ==
  { NoFile, Unparsable, JsonFile(<<>>),
    JsonFile(<<Entry("other", Str_keep), Entry("newFileLocation", Str_folder),
               Entry("newFileFolderPath", Str_pages)>>),
    JsonFile(<<Entry("newFileLocation", Str_folder),
               Entry("newFileFolderPath", Str_notes)>>) }

\* daily-notes.json: absent, not parsable, as Logseq expects it by default,
\* and with another folder and the day token in lower case.
DailyFiles ==
  { NoFile, Unparsable,
    JsonFile(<<Entry("folder", Str_journals), Entry("format", Fmt_YMD)>>),
    JsonFile(<<Entry("other", Str_keep), Entry("format", Fmt_YMd),
               Entry("folder", Str_daily)>>) }

\* The options of the daily notes plugin: none, both set, the format only.
DailyOptions ==
  { <<>>,
    <<Entry("format", Fmt_YMD), Entry("folder", Str_journals)>>,
    <<Entry("format", Fmt_DMY)>> }

ConfigDirs ==
  [app : AppFiles, daily : DailyFiles, options : DailyOptions]

\* The vaults of the scan: two namespace files with task markers around a
\* plain file, and a vault without any issue of a file.
ScanVaults ==
  { [files |-> <<TFile(Str_pages, Na_page), TFile(Str_notes, Nx),
                 TFile(Str_pages, Nb_page)>>,
     contents |-> <<Txt_todo, Txt_plain, Txt_done>>],
    [files |-> <<TFile(Str_notes, Nx)>>, contents |-> <<Txt_plain>>] }

ScanInit ==
  /\ \E v \in ScanVaults : files = v.files /\ contents = v.contents
  /\ folders = {Str_pages, Str_notes}
  /\ config \in FormatConfigs
  /\ configDir \in ConfigDirs
  /\ settings = DEFAULT_SETTINGS
  /\ runs = <<>>
  /\ commands = Registered(DEFAULT_SETTINGS)
  /\ inject = NoInject
  /\ vcm = NoVcm
  /\ io = NoIo
  /\ bookmarks = <<>>
  /\ direction = "obsidian-to-logseq"
  /\ bsm = NoBsm
  /\ srm = NoSrm
  /\ ccm = NoCcm
  /\ last = NoReport
  /\ ops = 0
  /\ root = NoOtherKeys
  /\ env = "ok"

\* LogseqerSettingTab: toggle.onChange of one of the four toggles of the
\* vault check.
ToggleSetting ==
  /\ ~vcm.open
  /\ \E flag \in {"enableVaultDateCheck", "enableVaultNamespaceCheck",
                   "enableVaultTaskMarkerCheck", "enableVaultFolderSettingsCheck"} :
       settings' = [settings EXCEPT ![flag] = ~@]
  /\ UNCHANGED <<syncVars, root, env, contents, folders, vcm, io, configDir, runs,
               commands, inject>>

ScanNext ==
  \/ RunVaultCheck
  \/ VcmClose
  \/ ToggleSetting

SpecScan == ScanInit /\ [][ScanNext]_vars

----------------------------------------------------------------------------
(* Properties of the scan.                                                 *)

\* The place of the key of a Settings issue in the order of the checks:
\* new-file folder, new-file location, daily-note folder, daily-note format.
CheckOrder == <<"newFileFolderPath", "newFileLocation", "folder", "format">>

\* The place of an issue in the order of the result: the Settings issues in
\* the order of the checks, then the files in the order of the corpus, the
\* Namespace issue of a file before its Task Marker issue.
RankOf(issue) ==
  IF issue.type = "Settings"
    THEN CHOOSE n \in 1..Len(CheckOrder) : CheckOrder[n] = issue.fixData.key
    ELSE Len(CheckOrder) + 2 * issue.file
         + (IF issue.type = "Namespace" THEN 0 ELSE 1)

\* C27: the issues of a scan come in a stable order: the Settings issues
\* first, in the order new-file folder, new-file location, daily-note
\* folder, daily-note format, then the issues of the files in the order of
\* the corpus, the Namespace issue of a file before its Task Marker issue.
C27_IssuesInStableOrder ==
  vcm.open =>
    \A i, j \in 1..Len(vcm.issues) :
      i < j => RankOf(vcm.issues[i]) < RankOf(vcm.issues[j])

\* A scan with the four Settings issues and, for two files, a Namespace
\* issue and a Task Marker issue each.
C27_Witness ==
  /\ vcm.open
  /\ Len(vcm.issues) = Len(CheckOrder) + 4
  /\ \A n \in 1..Len(CheckOrder) : vcm.issues[n].fixData.key = CheckOrder[n]
  /\ vcm.issues[5].type = "Namespace" /\ vcm.issues[6].type = "Task Marker"
  /\ vcm.issues[5].file = vcm.issues[6].file
  /\ vcm.issues[7].type = "Namespace" /\ vcm.issues[7].file > vcm.issues[6].file

\* The issues of a scan that belong to one check.
FolderSettingsIssues ==
  {k \in 1..Len(vcm.issues) :
     vcm.issues[k].type = "Settings" /\ vcm.issues[k].fixData.key # "format"}
DateFormatIssues ==
  {k \in 1..Len(vcm.issues) :
     vcm.issues[k].type = "Settings" /\ vcm.issues[k].fixData.key = "format"}
IssuesOfType(type) == {k \in 1..Len(vcm.issues) : vcm.issues[k].type = type}

\* C28: every check of the scan has its own flag.  With the flag of a check
\* off the scan has no issue of that check, whatever the other flags are:
\* no date-format issue with enableVaultDateCheck off, no folder settings
\* issue with enableVaultFolderSettingsCheck off, no Namespace issue with
\* enableVaultNamespaceCheck off, no Task Marker issue with
\* enableVaultTaskMarkerCheck off.  And the issues of a check whose flag is
\* on are there whatever the other flags are.
C28_EachCheckHasItsOwnFlag ==
  vcm.open =>
    /\ ~settings.enableVaultDateCheck => DateFormatIssues = {}
    /\ ~settings.enableVaultFolderSettingsCheck => FolderSettingsIssues = {}
    /\ ~settings.enableVaultNamespaceCheck => IssuesOfType("Namespace") = {}
    /\ ~settings.enableVaultTaskMarkerCheck => IssuesOfType("Task Marker") = {}
    /\ ( /\ settings.enableVaultDateCheck
         /\ obsDaily(configDir, "format") # expectedObsDailyFormat(logseqDateFormat(config)) )
         => DateFormatIssues # {}
    /\ (settings.enableVaultFolderSettingsCheck /\ obsDaily(configDir, "folder") # Str_journals)
         => \E k \in FolderSettingsIssues : vcm.issues[k].fixData.key = "folder"
    /\ \A f \in 1..Len(files) :
         /\ (settings.enableVaultNamespaceCheck /\ IsNamespaceFile(files[f]))
              => \E k \in IssuesOfType("Namespace") : vcm.issues[k].file = f
         /\ (settings.enableVaultTaskMarkerCheck /\ markerRegex(contents[f]))
              => \E k \in IssuesOfType("Task Marker") : vcm.issues[k].file = f

\* The flags that are consulted by the scan do what C28 says of them.
FlagsOfTheScan ==
  vcm.open =>
    /\ ~settings.enableVaultFolderSettingsCheck => IssuesOfType("Settings") = {}
    /\ ~settings.enableVaultNamespaceCheck => IssuesOfType("Namespace") = {}
    /\ ~settings.enableVaultTaskMarkerCheck => IssuesOfType("Task Marker") = {}
    /\ (settings.enableVaultFolderSettingsCheck /\ obsDaily(configDir, "folder") # Str_journals)
         => \E k \in FolderSettingsIssues : vcm.issues[k].fixData.key = "folder"
    /\ \A f \in 1..Len(files) :
         /\ (settings.enableVaultNamespaceCheck /\ IsNamespaceFile(files[f]))
              => \E k \in IssuesOfType("Namespace") : vcm.issues[k].file = f
         /\ (settings.enableVaultTaskMarkerCheck /\ markerRegex(contents[f]))
              => \E k \in IssuesOfType("Task Marker") : vcm.issues[k].file = f

\* The last position of the token that starts at position i of a date
\* format: a token is a run of one character.
RECURSIVE TokenEnd(_, _)
TokenEnd(format, i) ==
  IF i < Len(format) /\ format[i + 1] = format[i] THEN TokenEnd(format, i + 1) ELSE i

\* The token map of the date formats, token by token: the 4-y token becomes
\* the 4-Y token, the 2-d day token becomes `day`, an underscore becomes a
\* hyphen and every other token stays.
RECURSIVE TokenMap(_, _)
TokenMap(format, day) ==
  IF format = <<>> THEN <<>>
  ELSE LET n == TokenEnd(format, 1)
           token == SubSeq(format, 1, n)
           out == IF token = <<"y", "y", "y", "y">> THEN <<"Y", "Y", "Y", "Y">>
                  ELSE IF token = <<"d", "d">> THEN day
                  ELSE IF token[1] = "_" THEN [k \in 1..n |-> "-"]
                  ELSE token
       IN out \o TokenMap(From(format, n + 1), day)

\* The positions of the date-format issue in a list of issues.
DateFormatIssue(issues) ==
  {k \in 1..Len(issues) :
     issues[k].type = "Settings" /\ issues[k].fixData.key = "format"}

----------------------------------------------------------------------------
(* Applying the fixes of a scan with settings issues, on a vault that may  *)
(* reject writes.                                                          *)

\* The config directories the fixes are applied to: app.json and
\* daily-notes.json with keys of other features and values to fix, an
\* app.json that does not parse, plugin options without a folder, and no
\* app.json at all.
ApplyConfigDirs ==
  { [app |-> JsonFile(<<Entry("other", Str_keep), Entry("newFileLocation", Str_folder),
                        Entry("newFileFolderPath", Str_notes)>>),
     daily |-> JsonFile(<<Entry("other", Str_keep), Entry("format", Fmt_YMd),
                          Entry("folder", Str_daily)>>),
     options |-> <<>>],
    [app |-> Unparsable,
     daily |-> JsonFile(<<Entry("folder", Str_journals), Entry("format", Fmt_YMD)>>),
     options |-> <<>>],
    [app |-> JsonFile(<<Entry("other", Str_keep), Entry("newFileLocation", Str_folder),
                        Entry("newFileFolderPath", Str_pages)>>),
     daily |-> NoFile,
     options |-> <<Entry("format", Fmt_DMY)>>],
    [app |-> NoFile,
     daily |-> JsonFile(<<Entry("folder", Str_journals), Entry("format", Fmt_YMD)>>),
     options |-> <<>>] }

\* The vaults the fixes are applied to: a namespace file whose new path is
\* taken by a file with a task marker, and a file with a task marker alone.
ApplyVaults ==
  { [files |-> <<TFile(Str_pages, Nproj_sub_page), TFile(Str_pages, Npage)>>,
     contents |-> <<Txt_plain, Txt_todo>>],
    [files |-> <<TFile(Str_notes, Nx)>>, contents |-> <<Txt_done>>] }

ApplyInit ==
  /\ \E v \in ApplyVaults : files = v.files /\ contents = v.contents
  /\ folders = {Str_pages, Str_notes}
  /\ config = Cfg_nokey
  /\ configDir \in ApplyConfigDirs
  /\ settings = DEFAULT_SETTINGS
  /\ runs = <<>>
  /\ commands = Registered(DEFAULT_SETTINGS)
  /\ inject = NoInject
  /\ vcm = NoVcm
  /\ io = NoIo
  /\ bookmarks = <<>>
  /\ direction = "obsidian-to-logseq"
  /\ bsm = NoBsm
  /\ srm = NoSrm
  /\ ccm = NoCcm
  /\ last = NoReport
  /\ ops = 0
  /\ root = NoOtherKeys
  /\ env = "ok"

\* The vault becomes read-only while the dialog is open: from then on the
\* vault and the adapter reject every write.
VaultFault ==
  /\ vcm.open
  /\ env = "ok"
  /\ env' = "vaultReadOnly"
  /\ UNCHANGED <<syncVars, root, contents, folders, vcm, io, checkVars>>

\* One scan and the dialog of its issues, up to the end of applyFixes().
ApplyNext ==
  \/ io = NoIo /\ RunVaultCheck
  \/ VcmToggleIssue
  \/ VcmToggleGroup
  \/ VcmSelectAll
  \/ VcmDeselectAll
  \/ VcmApply
  \/ VcmCancelApply
  \/ VcmClose
  \/ VcmConfirmApply
  \/ VaultFault

SpecApply == ApplyInit /\ [][ApplyNext]_vars

----------------------------------------------------------------------------
(* Properties of applyFixes().                                             *)

\* The operations of a log that completed a fix: the rename of a namespace
\* fix and the write of a content fix.
RenamesDone(log) ==
  {e \in 1..Len(log) : log[e].op = "rename" /\ log[e].ok}
ContentFixesDone(log) ==
  {e \in 1..Len(log) :
     log[e].op = "modify" /\ log[e].ok /\ log[e].fix = "content-replace"}

\* C22: a fix that fails is caught and does not stop the loop: every
\* selected issue is processed, whatever happened to the ones before it; a
\* failed fix is not counted, and the one report at the end of applyFixes()
\* gives the number of renames and of content fixes that went through.
C22_FailureIsIsolated ==
  [][(vcm.confirming /\ vcm' = NoVcm) =>
       LET log == io'.log
           selected == vcm.selectedIssues
       IN /\ \A n \in 1..Len(selected) :
               \E e \in 1..Len(log) : log[e].issue = vcm.issues[selected[n]]
          /\ io'.renameCount = Cardinality(RenamesDone(log))
          /\ io'.contentCount
               = Cardinality(RenamesDone(log)) + Cardinality(ContentFixesDone(log))]_vars

\* applyFixes() went on after a fix that failed: a rejected operation is
\* followed by the fix of another issue that went through and is counted.
C22_Witness ==
  \E e, f \in 1..Len(io.log) :
    /\ e < f
    /\ ~io.log[e].ok
    /\ io.log[f].ok /\ io.log[f].op = "modify"
    /\ io.log[f].issue # io.log[e].issue
    /\ io.contentCount = 1
    /\ io.renameCount = 0

\* The writes of config files that went through.
SettingsWrites ==
  {e \in 1..Len(io.log) : io.log[e].op = "write" /\ io.log[e].ok}

\* The keys of a JSON object.
KeysOf(data) == {data[k].key : k \in 1..Len(data)}

\* The config file a settings fix names.
TargetOf(issue) ==
  IF issue.fixData.target = "app.json" THEN configDir.app ELSE configDir.daily

\* C24: a settings update sets the named key of the target file to the
\* proposed value and keeps every other key of the file, which counts as an
\* empty object when it is absent or does not parse; when several updates
\* of one run name the same file, all their keys hold the proposed values
\* afterwards.
C24_SettingsUpdateSetsOneKey ==
  \A e \in SettingsWrites :
    LET fix == io.log[e].issue.fixData
        before == IF io.log[e].read.exists /\ io.log[e].read.parses
                    THEN io.log[e].read.data ELSE <<>>
        after == io.log[e].content.data
    IN /\ Get(after, fix.key) = fix.value
       /\ KeysOf(after) = KeysOf(before) \cup {fix.key}
       /\ \A key \in KeysOf(before) \ {fix.key} : Get(after, key) = Get(before, key)
       /\ Get(TargetOf(io.log[e].issue).data, fix.key) = fix.value
       /\ TargetOf(io.log[e].issue).parses

\* Two settings updates of one run wrote daily-notes.json, which held a key
\* of another feature: the file has both proposed values and the other key.
C24_Witness ==
  \E e, f \in SettingsWrites :
    /\ e < f
    /\ io.log[e].issue.fixData.target = "daily-notes.json"
    /\ io.log[f].issue.fixData.target = "daily-notes.json"
    /\ Get(io.log[e].read.data, "other") = Str_keep
    /\ Get(configDir.daily.data, "other") = Str_keep
    /\ Get(configDir.daily.data, "folder") = Str_journals
    /\ Get(configDir.daily.data, "format") = Fmt_YMD

\* A settings update wrote a file that was absent or did not parse.
SettingsWrittenFromNothing ==
  \E e \in SettingsWrites :
    /\ ~io.log[e].read.parses
    /\ KeysOf(io.log[e].content.data) = {io.log[e].issue.fixData.key}

----------------------------------------------------------------------------
(* applyFixes() as the asynchronous function it is: the calls suspended at *)
(* an await, a step of one of them at a time.                              *)

\* Largest number of applyFixes() calls in flight.
MaxRuns == 2

RunsInit ==
  /\ \E v \in ApplyVaults : files = v.files /\ contents = v.contents
  /\ folders = {Str_pages, Str_notes}
  /\ config = Cfg_nokey
  /\ configDir = NoConfigDir
  /\ settings = FileChecksOnly
  /\ runs = <<>>
  /\ commands = Registered(DEFAULT_SETTINGS)
  /\ inject = NoInject
  /\ vcm = NoVcm
  /\ io = NoIo
  /\ bookmarks = <<>>
  /\ direction = "obsidian-to-logseq"
  /\ bsm = NoBsm
  /\ srm = NoSrm
  /\ ccm = NoCcm
  /\ last = NoReport
  /\ ops = 0
  /\ root = NoOtherKeys
  /\ env = "ok"

\* confirmBtn.onclick of the confirmation: onConfirm() calls applyFixes(),
\* which takes Array.from(this.selectedIssues) and runs up to its first
\* await; then the confirmation closes.  The dialog stays open.
VcmConfirmStart ==
  /\ vcm.open /\ vcm.confirming
  /\ Len(runs) < MaxRuns
  /\ runs' = Append(runs, [issues |-> vcm.issues, todo |-> vcm.selectedIssues,
                           renameCount |-> 0, contentCount |-> 0])
  /\ vcm' = [vcm EXCEPT !.confirming = FALSE]
  /\ UNCHANGED <<syncVars, root, env, contents, folders, io, settings, configDir,
               commands, inject>>

\* One of the suspended calls goes on: the fix of its next issue.
ApplyFixesStep ==
  \E r \in 1..Len(runs) :
    /\ runs[r].todo # <<>>
    /\ LET run == runs[r]
           st == ApplyFix([files |-> files, contents |-> contents,
                           configDir |-> configDir, log |-> io.log,
                           renameCount |-> run.renameCount,
                           contentCount |-> run.contentCount],
                          run.issues[run.todo[1]])
       IN /\ files' = st.files
          /\ contents' = st.contents
          /\ configDir' = st.configDir
          /\ io' = [io EXCEPT !.log = st.log]
          /\ runs' = [runs EXCEPT ![r] =
                        [run EXCEPT !.todo = Tail(@),
                                    !.renameCount = st.renameCount,
                                    !.contentCount = st.contentCount]]
    /\ UNCHANGED <<folders, bookmarks, config, direction, bsm, srm, ccm, last, ops,
                   root, env, vcm, settings, commands, inject>>

\* The end of a call: the Notice with its counts, and this.close().
ApplyFixesEnd ==
  \E r \in 1..Len(runs) :
    /\ runs[r].todo = <<>>
    /\ io' = [io EXCEPT !.renameCount = runs[r].renameCount,
                        !.contentCount = runs[r].contentCount]
    /\ runs' = SubSeq(runs, 1, r - 1) \o SubSeq(runs, r + 1, Len(runs))
    /\ vcm' = NoVcm
    /\ UNCHANGED <<syncVars, root, env, contents, folders, settings, configDir,
                 commands, inject>>

\* One scan and the dialog of its issues.
RunsNext ==
  \/ io = NoIo /\ runs = <<>> /\ RunVaultCheck
  \/ VcmToggleIssue
  \/ VcmApply
  \/ VcmCancelApply
  \/ VcmClose
  \/ VcmConfirmStart
  \/ ApplyFixesStep
  \/ ApplyFixesEnd

SpecRuns == RunsInit /\ [][RunsNext]_vars

\* The operations of the log that wrote for one issue.
WritesFor(issue) ==
  {e \in 1..Len(io.log) :
     io.log[e].op \in {"modify", "write"} /\ io.log[e].issue = issue}

\* C25: within one scan session the fix of a selected issue is applied at
\* most once and no two calls of applyFixes() are in flight at a time,
\* whatever Apply and Confirm clicks the user makes while the dialog is
\* open, a call suspended at an await included.
C25_OneRunAndEachFixOnce ==
  /\ Len(runs) <= 1
  /\ \A e \in 1..Len(io.log) : Cardinality(WritesFor(io.log[e].issue)) <= 1

----------------------------------------------------------------------------
(* Simulation mode: the two dialogs opened on sample data from the         *)
(* developer dialog, next to the vault check on the vault.                 *)

MockFile(path, basename) == [path |-> path, basename |-> basename]

Txt_sampleTask == <<"-", " ", "T", "O", "D", "O", " ", "s", "a", "m", "p", "l", "e", " ", "t", "a", "s", "k">>

\* runVaultCheckSimulation: the three sample issues.
SampleIssues ==
  << [file |-> MockFile(<<"p", "a", "g", "e", "s", "/", "e", "x", "a", "m", "p", "l", "e", "/", "n", "e", "s", "t", "e", "d", "P", "a", "g", "e", ".", "m", "d">>, <<"n", "e", "s", "t", "e", "d", "P", "a", "g", "e">>),
      type |-> "Namespace",
      fixData |-> [type |-> "rename", newPath |-> <<"p", "a", "g", "e", "s", "/", "e", "x", "a", "m", "p", "l", "e", ".", "n", "e", "s", "t", "e", "d", "P", "a", "g", "e", ".", "m", "d">>]],
     [file |-> MockFile(<<"j", "o", "u", "r", "n", "a", "l", "s", "/", "2", "0", "2", "4", "-", "0", "2", "-", "3", "0", ".", "m", "d">>, <<"2", "0", "2", "4", "-", "0", "2", "-", "3", "0">>),
      type |-> "Date", fixData |-> Null],
     [file |-> MockFile(<<"p", "a", "g", "e", "s", "/", "t", "a", "s", "k", "-", "e", "x", "a", "m", "p", "l", "e", ".", "m", "d">>, <<"t", "a", "s", "k", "-", "e", "x", "a", "m", "p", "l", "e">>),
      type |-> "Task Marker",
      fixData |-> [type |-> "content-replace", content |-> Txt_sampleTask]] >>

\* The sample data of the button 'Sync resolution'.
SampleMissing == <<<<"S", "a", "m", "p", "l", "e", " ", "P", "a", "g", "e", " ", "A">>, <<"N", "e", "w", " ", "P", "a", "g", "e", " ", "B">>>>
SampleAmbiguous ==
  << [name |-> <<"D", "u", "p", "l", "i", "c", "a", "t", "e", "P", "a", "g", "e">>,
      files |-> <<<<"p", "a", "g", "e", "s", "/", "D", "u", "p", "l", "i", "c", "a", "t", "e", "P", "a", "g", "e", ".", "m", "d">>,
                  <<"p", "a", "g", "e", "s", "/", "s", "u", "b", "/", "D", "u", "p", "l", "i", "c", "a", "t", "e", "P", "a", "g", "e", ".", "m", "d">>>>] >>

\* No dialog is on top of the developer dialog.
NoDialog == ~vcm.open /\ ~srm.open

\* btn2.onclick of the DeveloperModal: runVaultCheckSimulation().
RunVaultCheckSimulation ==
  /\ NoDialog
  /\ vcm' = NewVaultCheckResolutionModal(SampleIssues, TRUE)
  /\ UNCHANGED <<files, contents, folders, io, syncVars, root, env, checkVars>>

\* btn3.onclick of the DeveloperModal: the SyncResolutionModal on the sample
\* data, in simulation mode.
SyncResolutionSimulation ==
  /\ NoDialog
  /\ srm' = NewSyncResolutionModal(SampleMissing, SampleAmbiguous, TRUE)
  /\ UNCHANGED <<files, bookmarks, config, direction, bsm, ccm, last, ops, restVars>>

\* Vaults with and without bookmarks.
SimulationInit ==
  /\ \E v \in ApplyVaults : files = v.files /\ contents = v.contents
  /\ folders = {Str_pages, Str_notes}
  /\ bookmarks \in {<<>>, <<FileItem(PathOf(Str_notes, Nx))>>}
  /\ config = Cfg_nokey
  /\ configDir = NoConfigDir
  /\ settings = FileChecksOnly
  /\ runs = <<>>
  /\ commands = Registered(DEFAULT_SETTINGS)
  /\ inject = NoInject
  /\ vcm = NoVcm
  /\ io = NoIo
  /\ direction = "obsidian-to-logseq"
  /\ bsm = NoBsm
  /\ srm = NoSrm
  /\ ccm = NoCcm
  /\ last = NoReport
  /\ ops = 0
  /\ root = NoOtherKeys
  /\ env = "ok"

SimulationNext ==
  \/ NoDialog /\ io = NoIo /\ RunVaultCheck
  \/ RunVaultCheckSimulation
  \/ SyncResolutionSimulation
  \/ VcmToggleIssue
  \/ VcmToggleGroup
  \/ VcmSelectAll
  \/ VcmDeselectAll
  \/ VcmApply
  \/ VcmCancelApply
  \/ VcmClose
  \/ VcmConfirmApply
  \/ SrmSelect
  \/ SrmToggleMissing
  \/ SrmSyncSelected
  \/ SrmCancel

SpecSimulation == SimulationInit /\ [][SimulationNext]_vars

\* A dialog in simulation mode is open.
SimulationMode == (vcm.open /\ vcm.simulation) \/ (srm.open /\ srm.simulation)

\* The corpus files with their contents and folders, the config files and
\* the bookmark store.
Stores == <<files, contents, folders, config, configDir, bookmarks, root>>

\* C26: in simulation mode no action of a dialog (select, deselect, Apply,
\* Sync selected, Close) writes, creates or renames a corpus file, a config
\* file or the bookmark store, and no vault operation is logged.
C26_SimulationWritesNothing ==
  [][SimulationMode => UNCHANGED <<Stores, io>>]_vars

\* Apply or Sync selected has answered with the Notice of the simulation
\* mode, the dialog still open with a selection.
C26_Witness ==
  /\ last.notice = "Simulation mode: no changes will be made."
  /\ \/ /\ last.op = "SyncResolutionModal.executeSync"
        /\ srm.open /\ srm.simulation /\ srm.selectedMissing # <<>>
     \/ /\ last.op = "VaultCheckResolutionModal.fixBtn"
        /\ vcm.open /\ vcm.simulation /\ vcm.selectedIssues # <<>>

\* Both dialogs have answered Apply in simulation mode, and the vault check
\* on the vault has applied fixes in between.
SimulationNextToRealApply ==
  /\ io # NoIo
  /\ vcm.open /\ vcm.simulation
  /\ last.op = "VaultCheckResolutionModal.fixBtn"

----------------------------------------------------------------------------
(* The journal handler: vault.on('create').                                *)

\* Largest number of files created.
MaxFiles == 1

Str_dash == <<"-", " ">>
Str_slash == <<"/">>

\* data.startsWith(prefix)
StartsWith(data, prefix) ==
  Len(data) >= Len(prefix) /\ SubSeq(data, 1, Len(prefix)) = prefix

\* getDailyNoteFolder(): options.folder || 'journals' of the daily notes
\* plugin, 'journals' without the options.
getDailyNoteFolder(cd) == Or(Get(cd.options, "folder"), Str_journals)

\* The callback of vault.process with the prefix added to every content.
journalProcess_Always(data) == Str_dash \o data

\* The callback of vault.process: "- " in front of a content without it.
journalProcess(data) ==
  IF ~StartsWith(data, Str_dash) THEN Str_dash \o data ELSE data

\* The handler of 'create' for a TFile with the content `data`: the content
\* it leaves.
onCreate(file, data) ==
  IF ~settings.enableJournalNew THEN data
  ELSE IF StartsWith(file.path, getDailyNoteFolder(configDir) \o Str_slash)
         THEN journalProcess(data)
         ELSE data

\* What the handler found: the file, its content, the flag and the folder.
CreateReport(k, data) ==
  [op |-> "vault.on(create)", file |-> k, before |-> data,
   enabled |-> settings.enableJournalNew,
   folder |-> getDailyNoteFolder(configDir)]

Str_journalsX == <<"j", "o", "u", "r", "n", "a", "l", "s", "X">>
Str_journals_sub == <<"j", "o", "u", "r", "n", "a", "l", "s", "/", "s", "u", "b">>

\* The folders a file is created in: the two daily note folders, a folder
\* below one of them, a folder whose name only begins like one, another one.
NewFileFolders == {Str_journals, Str_daily, Str_journals_sub, Str_journalsX, Str_notes}

\* The contents a file is created with.
NewFileContents == {<<>>, <<"x">>, <<"-", "x">>, <<"-", " ">>, <<"-", " ", "x">>,
                    <<" ", "-", " ", "x">>}

\* The options of the daily notes plugin: none, another folder, an empty
\* folder, the format only.
JournalOptions ==
  { <<>>, <<Entry("folder", Str_daily)>>, <<Entry("folder", <<>>)>>,
    <<Entry("format", Fmt_YMD)>> }

JournalInit ==
  /\ files = <<>>
  /\ contents = <<>>
  /\ folders = NewFileFolders
  /\ settings = DEFAULT_SETTINGS
  /\ configDir \in [app : {NoFile}, daily : {NoFile}, options : JournalOptions]
  /\ config = <<>>
  /\ runs = <<>>
  /\ commands = Registered(DEFAULT_SETTINGS)
  /\ inject = NoInject
  /\ vcm = NoVcm
  /\ io = NoIo
  /\ bookmarks = <<>>
  /\ direction = "obsidian-to-logseq"
  /\ bsm = NoBsm
  /\ srm = NoSrm
  /\ ccm = NoCcm
  /\ last = NoReport
  /\ ops = 0
  /\ root = NoOtherKeys
  /\ env = "ok"

\* A file is created with a content, and the handler of 'create' runs.
VaultCreate ==
  /\ Len(files) < MaxFiles
  /\ \E folder \in NewFileFolders, data \in NewFileContents :
       LET file == TFile(folder, Na)
       IN /\ ~Exists(files, file.path)
          /\ files' = Append(files, file)
          /\ contents' = Append(contents, onCreate(file, data))
          /\ last' = CreateReport(Len(files) + 1, data)
  /\ UNCHANGED <<bookmarks, config, direction, bsm, srm, ccm, ops, root, env,
                 folders, vcm, io, checkVars>>

\* 'create' is delivered again for a file of the vault, as it is for every
\* file when the vault is loaded.
VaultCreateAgain ==
  /\ \E k \in 1..Len(files) :
       /\ contents' = [contents EXCEPT ![k] = onCreate(files[k], @)]
       /\ last' = CreateReport(k, contents[k])
  /\ UNCHANGED <<files, bookmarks, config, direction, bsm, srm, ccm, ops, root, env,
                 folders, vcm, io, checkVars>>

\* toggle.onChange of 'New journal format'.
ToggleJournalNew ==
  /\ settings' = [settings EXCEPT !.enableJournalNew = ~@]
  /\ UNCHANGED <<syncVars, root, env, contents, folders, vcm, io, configDir, runs,
               commands, inject>>

JournalNext ==
  \/ VaultCreate
  \/ VaultCreateAgain
  \/ ToggleJournalNew

SpecJournal == JournalInit /\ [][JournalNext]_vars

\* The file of the last 'create' lies under the daily note folder.
UnderJournalFolder ==
  StartsWith(files[last.file].path, last.folder \o Str_slash)

\* C31: after the handler of 'create', the content of a file under the
\* daily note folder with enableJournalNew on starts with "- ", it is the
\* original content when that began with "- " and "- " before the original
\* content otherwise, and handling it again leaves it as it is; a file
\* outside the folder, and any file with the flag off, keeps its content.
C31_JournalPrefixOnce ==
  last.op = "vault.on(create)" =>
    LET after == contents[last.file]
    IN IF last.enabled /\ UnderJournalFolder
         THEN /\ StartsWith(after, Str_dash)
              /\ after = (IF StartsWith(last.before, Str_dash) THEN last.before
                          ELSE Str_dash \o last.before)
              /\ (settings.enableJournalNew =>
                    onCreate(files[last.file], after) = after)
         ELSE after = last.before

\* The handler has put "- " before the content of a new journal file.
C31_Witness ==
  /\ last.op = "vault.on(create)"
  /\ last.enabled /\ UnderJournalFolder
  /\ ~StartsWith(last.before, Str_dash)
  /\ contents[last.file] = Str_dash \o last.before

\* The handler has met a journal file that began with "- " already.
JournalFileHandledTwice ==
  /\ last.op = "vault.on(create)"
  /\ last.enabled /\ UnderJournalFolder
  /\ StartsWith(last.before, Str_dash)

\* The handler has passed a file over: the flag off, or another folder.
JournalFileLeftAlone ==
  /\ last.op = "vault.on(create)"
  /\ ~(last.enabled /\ UnderJournalFolder)

----------------------------------------------------------------------------
(* The two commands of the command palette and their flags.                *)

CommandsInit ==
  /\ settings = DEFAULT_SETTINGS
  /\ commands = Registered(DEFAULT_SETTINGS)
  /\ inject = NoInject
  /\ files = <<>>
  /\ contents = <<>>
  /\ folders = {}
  /\ configDir = NoConfigDir
  /\ config = <<>>
  /\ runs = <<>>
  /\ vcm = NoVcm
  /\ io = NoIo
  /\ bookmarks = <<>>
  /\ direction = "obsidian-to-logseq"
  /\ bsm = NoBsm
  /\ srm = NoSrm
  /\ ccm = NoCcm
  /\ last = NoReport
  /\ ops = 0
  /\ root = NoOtherKeys
  /\ env = "ok"

\* toggle.onChange of 'Vault check': the flag is set and saved.
ToggleVaultCommand ==
  /\ settings' = [settings EXCEPT !.enableVaultCommand = ~@]
  /\ UNCHANGED <<syncVars, root, env, contents, folders, vcm, io, configDir, runs,
               commands, inject>>

\* toggle.onChange of 'Sync settings': the flag is set and saved.
ToggleSyncCommand ==
  /\ settings' = [settings EXCEPT !.enableSyncCommand = ~@]
  /\ UNCHANGED <<syncVars, root, env, contents, folders, vcm, io, configDir, runs,
               commands, inject>>

\* The plugin is disabled and enabled again, or the application restarted:
\* the commands of the plugin are removed with it, and onload() adds the
\* commands whose flag is on in the saved settings.
Onload ==
  /\ commands' = Registered(settings)
  /\ UNCHANGED <<syncVars, root, env, contents, folders, vcm, io, settings,
                 configDir, runs, inject>>

CommandsNext ==
  \/ ToggleVaultCommand
  \/ ToggleSyncCommand
  \/ ToggleSetting
  \/ ToggleJournalNew
  \/ Onload

SpecCommands == CommandsInit /\ [][CommandsNext]_vars

\* C32: at any time, after any sequence of settings changes, the command
\* 'Check vault compatibility' is in the command palette exactly when
\* enableVaultCommand is on, and 'Sync settings' exactly when
\* enableSyncCommand is on.
C32_CommandsFollowTheirFlags ==
  /\ ("check-vault" \in commands) <=> settings.enableVaultCommand
  /\ ("sync-settings" \in commands) <=> settings.enableSyncCommand

\* The commands are those of the flags as onload() found them.
CommandsAsLoaded ==
  [][commands' # commands => commands' = Registered(settings)]_vars

----------------------------------------------------------------------------
(* What leads to a change of a file.                                       *)

\* The issues selected in the dialog that carry a fix.
SelectedWithFix ==
  {vcm.issues[vcm.selectedIssues[j]] : j \in 1..Len(vcm.selectedIssues)}
  \cap {vcm.issues[k] : k \in {i \in 1..Len(vcm.issues) : vcm.issues[i].fixData # Null}}

\* C33: the fix path changes a corpus file or a config file only in the
\* step of Confirm, the confirmation having been opened by Apply; closing
\* the dialog, cancelling the confirmation and changing the selection leave
\* every file as it is, and every operation of the step is done for an
\* issue that is selected and carries a fix at that time.
C33_OnlyConfirmedSelectedFixes ==
  [][(<<files, contents, folders, configDir>>' # <<files, contents, folders, configDir>>
        \/ io' # io)
     => /\ vcm.open /\ vcm.confirming
        /\ \A e \in 1..Len(io'.log) : io'.log[e].issue \in SelectedWithFix]_vars

\* A fix went through while a file whose task marker issue was not selected
\* still holds its marker.
C33_Witness ==
  /\ \E e \in 1..Len(io.log) : io.log[e].ok
  /\ \E k \in 1..Len(files) :
       /\ markerRegex(contents[k])
       /\ \A e \in 1..Len(io.log) : io.log[e].issue.file # k

----------------------------------------------------------------------------
(* The values the settings checks read.                                    *)

\* The value of a key in a config file as it is on disk: nothing for a file
\* that is absent or whose text is no JSON.
OnDisk(file, key) ==
  IF file.exists /\ file.parses /\ \E k \in 1..Len(file.data) : file.data[k].key = key
    THEN LET k == CHOOSE k \in 1..Len(file.data) : file.data[k].key = key
         IN file.data[k].value
    ELSE Null

\* The dialog shows the settings issue of a key with the expected value.
Raised(target, key, value) ==
  \E k \in 1..Len(vcm.issues) : vcm.issues[k] = SettingsIssue(target, key, value)

\* The dialog shows a settings issue of a key.
RaisedFor(target, key) ==
  \E k \in 1..Len(vcm.issues) :
    /\ vcm.issues[k].type = "Settings"
    /\ vcm.issues[k].fixData.target = target
    /\ vcm.issues[k].fixData.key = key

\* The issues of the dialog that are not settings issues.
FileIssuesShown == SelectSeq(vcm.issues, LAMBDA i : i.type # "Settings")

Unreadable(file) == ~file.exists \/ ~file.parses

\* C34: with the options of the daily notes plugin unavailable, the folder
\* and the format are read from daily-notes.json; a config file that is
\* absent or does not parse gives no value and no error: each check on it
\* raises its issue with the expected value, and the checks of the files
\* run as they do otherwise.
C34_SettingsReadWithFallback ==
  (vcm.open /\ ~vcm.simulation /\ settings.enableVaultFolderSettingsCheck) =>
    LET format == expectedObsDailyFormat(logseqDateFormat(config))
    IN /\ configDir.options = <<>> =>
            /\ RaisedFor("daily-notes.json", "folder")
                 <=> OnDisk(configDir.daily, "folder") # Str_journals
            /\ RaisedFor("daily-notes.json", "format")
                 <=> OnDisk(configDir.daily, "format") # format
       /\ (configDir.options = <<>> /\ Unreadable(configDir.daily)) =>
            /\ Raised("daily-notes.json", "folder", Str_journals)
            /\ Raised("daily-notes.json", "format", format)
       /\ Unreadable(configDir.app) =>
            /\ Raised("app.json", "newFileFolderPath", Str_pages)
            /\ Raised("app.json", "newFileLocation", Str_folder)
       /\ FileIssuesShown = Scan(files, contents, Len(files))

\* The scan has met a daily-notes.json that does not parse, the options
\* unavailable, in a vault with issues of files.
C34_Witness ==
  /\ vcm.open /\ settings.enableVaultFolderSettingsCheck
  /\ configDir.options = <<>>
  /\ configDir.daily = Unparsable
  /\ Raised("daily-notes.json", "folder", Str_journals)
  /\ FileIssuesShown # <<>>

\* The scan has read the folder from daily-notes.json and found it as
\* expected.
FolderReadFromFile ==
  /\ vcm.open /\ settings.enableVaultFolderSettingsCheck
  /\ configDir.options = <<>>
  /\ OnDisk(configDir.daily, "folder") = Str_journals
  /\ ~RaisedFor("daily-notes.json", "folder")

----------------------------------------------------------------------------
(* updateBacklinkQuery: the retry chain of tryInject.                      *)

maxRetries == 10
retryInterval == 100

\* DEFAULT_SETTINGS.backlinkQueryString
backlinkQueryString == "-path:\"journals/Journaling\""

\* tryInject with one retry more than maxRetries.
tryInject_OneMore(st, attempt) ==
  LET ran == [st EXCEPT !.attempt = attempt, !.attempts = @ + 1,
                        !.times = Append(@, st.clock), !.pending = FALSE]
      retry(r) == IF attempt < maxRetries + 1
                    THEN [r EXCEPT !.pending = TRUE, !.outcome = "retry"]
                    ELSE [r EXCEPT !.outcome = "gaveUp"]
  IN IF ~st.connected THEN [ran EXCEPT !.outcome = "detached"]
     ELSE IF st.dom = "none" THEN retry(ran)
     ELSE IF st.dom = "container" THEN retry([ran EXCEPT !.hidden = FALSE])
     ELSE [ran EXCEPT !.hidden = FALSE,
                      !.value = backlinkQueryString,
                      !.outcome = IF st.value # backlinkQueryString
                                    THEN "set" ELSE "kept"]

\* tryInject(attempt) on the view as it is at that time: nothing for a view
\* that is detached; a retry, while attempt < maxRetries, when the search
\* container or its input is missing; the query put in the input otherwise.
tryInject(st, attempt) ==
  LET ran == [st EXCEPT !.attempt = attempt, !.attempts = @ + 1,
                        !.times = Append(@, st.clock), !.pending = FALSE]
      retry(r) == IF attempt < maxRetries
                    THEN [r EXCEPT !.pending = TRUE, !.outcome = "retry"]
                    ELSE [r EXCEPT !.outcome = "gaveUp"]
  IN IF ~st.connected THEN [ran EXCEPT !.outcome = "detached"]
     ELSE IF st.dom = "none" THEN retry(ran)
     ELSE IF st.dom = "container" THEN retry([ran EXCEPT !.hidden = FALSE])
     ELSE [ran EXCEPT !.hidden = FALSE,
                      !.value = backlinkQueryString,
                      !.outcome = IF st.value # backlinkQueryString
                                    THEN "set" ELSE "kept"]

BacklinkInit ==
  /\ settings \in {DEFAULT_SETTINGS, [DEFAULT_SETTINGS EXCEPT !.enableBacklinkQuery = FALSE]}
  /\ inject \in {[NoInject EXCEPT !.dom = d, !.hidden = h] :
                   d \in {"none", "container", "input"}, h \in BOOLEAN}
  /\ commands = Registered(DEFAULT_SETTINGS)
  /\ files = <<>>
  /\ contents = <<>>
  /\ folders = {}
  /\ configDir = NoConfigDir
  /\ config = <<>>
  /\ runs = <<>>
  /\ vcm = NoVcm
  /\ io = NoIo
  /\ bookmarks = <<>>
  /\ direction = "obsidian-to-logseq"
  /\ bsm = NoBsm
  /\ srm = NoSrm
  /\ ccm = NoCcm
  /\ last = NoReport
  /\ ops = 0
  /\ root = NoOtherKeys
  /\ env = "ok"

\* One call of updateBacklinkQuery(leaf), the leaf showing a journal file or
\* another one: tryInject(0) for the journal file with the feature on.
UpdateBacklinkQuery ==
  /\ ~inject.called
  /\ \E journal \in BOOLEAN :
       inject' = IF settings.enableBacklinkQuery /\ journal
                   THEN tryInject([inject EXCEPT !.called = TRUE], 0)
                   ELSE [inject EXCEPT !.called = TRUE]
  /\ UNCHANGED <<syncVars, root, env, contents, folders, vcm, io, settings,
                 configDir, runs, commands>>

\* The timer of setTimeout(() => tryInject(attempt + 1), retryInterval).
TimerFires ==
  /\ inject.pending
  /\ inject' = tryInject([inject EXCEPT !.clock = @ + retryInterval],
                         inject.attempt + 1)
  /\ UNCHANGED <<syncVars, root, env, contents, folders, vcm, io, settings,
                 configDir, runs, commands>>

\* The user closes the tab of the view.
ViewDetached ==
  /\ inject.connected
  /\ inject' = [inject EXCEPT !.connected = FALSE]
  /\ UNCHANGED <<syncVars, root, env, contents, folders, vcm, io, settings,
                 configDir, runs, commands>>

\* The application draws, hides or removes the backlinks pane of the view.
BacklinksPaneChanges ==
  /\ \E d \in {"none", "container", "input"}, h \in BOOLEAN :
       /\ <<d, h>> # <<inject.dom, inject.hidden>>
       /\ inject' = [inject EXCEPT !.dom = d, !.hidden = h]
  /\ UNCHANGED <<syncVars, root, env, contents, folders, vcm, io, settings,
                 configDir, runs, commands>>

BacklinkNext ==
  \/ UpdateBacklinkQuery
  \/ TimerFires
  \/ ViewDetached
  \/ BacklinksPaneChanges

\* A timer that was set fires.
SpecBacklink == BacklinkInit /\ [][BacklinkNext]_vars /\ WF_vars(TimerFires)

\* The runs of tryInject are at most maxRetries + 1, retryInterval apart; a
\* timer is set only by a run that found the pane missing in a connected
\* view, before the last attempt; nothing is reported.
RetryChainBounded ==
  /\ inject.attempts <= maxRetries + 1
  /\ \A i \in 2..Len(inject.times) :
       inject.times[i] - inject.times[i - 1] = retryInterval
  /\ inject.pending => (inject.outcome = "retry" /\ inject.attempt < maxRetries)
  /\ inject.outcome \in {"set", "kept", "detached", "gaveUp"} => ~inject.pending
  /\ last = NoReport

\* C35: for one call of updateBacklinkQuery on a journal view, tryInject
\* runs at most maxRetries + 1 = 11 times, 100 ms apart, and gives up
\* without a message; no attempt is scheduled once the query was set, the
\* view was detached or the last attempt has run, and the chain ends.
C35_RetryChainTerminates ==
  /\ []RetryChainBounded
  /\ <>[](~inject.pending)

\* The last attempt has run without finding the pane.
C35_Witness ==
  /\ inject.attempts = maxRetries + 1
  /\ inject.outcome = "gaveUp"
  /\ inject.times[Len(inject.times)] = maxRetries * retryInterval
  /\ ~inject.pending

\* The query was set by a retry.
QuerySetByRetry ==
  /\ inject.outcome = "set" /\ inject.attempts > 1 /\ ~inject.pending

----------------------------------------------------------------------------
(* The selection of the bookmark sync dialog across its two views.         *)

OtherView(view) == IF view = "obsidian" THEN "logseq" ELSE "obsidian"

\* The dialog after a click on the button of the other view and a click on
\* the button of the view it shows now.
ThereAndBack(m) == switchView(switchView(m, OtherView(m.currentView)), m.currentView)

\* C36: in the bookmark sync dialog a name that is selected in one view is
\* still selected after switching to the other view and back.
C36_SelectionSurvivesRoundTrip ==
  bsm.open =>
    \A k \in 1..Len(bsm.selectedToAdd) :
      Includes(ThereAndBack(bsm).selectedToAdd, bsm.selectedToAdd[k])

\* Nothing is left of a selection after the two clicks.
RoundTripClearsSelection ==
  bsm.open => ThereAndBack(bsm).selectedToAdd = <<>>

SelectionInOneOfTwoViews ==
  /\ bsm.open /\ bsm.canModifyObsidian /\ bsm.canModifyLogseq
  /\ bsm.selectedToAdd # <<>>
  /\ toAdd(bsm, OtherView(bsm.currentView)) # <<>>

----------------------------------------------------------------------------
(* Detection and fix of task markers on the same contents.                 *)

Txt_midline == <<"b", "u", "y", " ", "T", "O", "D", "O">>
Txt_lower == <<"t", "o", "d", "o", " ", "x">>
Txt_word == <<"T", "O", "D", "O", "S", " ", "x">>

\* Contents with a marker at the start of a line, inside a line, in lower
\* case, inside a word, and without one.
MarkerTexts ==
  {Txt_todo, Txt_dash_done, Txt_mixed, Txt_midline, Txt_lower, Txt_word, Txt_plain}

MarkersInit ==
  /\ \E a \in MarkerTexts, b \in MarkerTexts :
       /\ files = <<TFile(Str_pages, Npage), TFile(Str_notes, Nx)>>
       /\ contents = <<a, b>>
  /\ folders = {Str_pages, Str_notes}
  /\ vcm = NoVcm
  /\ io = NoIo
  /\ settings = FileChecksOnly
  /\ configDir = NoConfigDir
  /\ runs = <<>>
  /\ commands = Registered(DEFAULT_SETTINGS)
  /\ inject = NoInject
  /\ bookmarks = <<>>
  /\ config = <<>>
  /\ direction = "obsidian-to-logseq"
  /\ bsm = NoBsm
  /\ srm = NoSrm
  /\ ccm = NoCcm
  /\ last = NoReport
  /\ ops = 0
  /\ root = NoOtherKeys
  /\ env = "ok"

MarkersNext ==
  \/ io = NoIo /\ RunVaultCheck
  \/ VcmToggleIssue
  \/ VcmToggleGroup
  \/ VcmSelectAll
  \/ VcmDeselectAll
  \/ VcmApply
  \/ VcmCancelApply
  \/ VcmClose
  \/ VcmConfirmApply

SpecMarkers == MarkersInit /\ [][MarkersNext]_vars

\* C38: the scan raises a Task Marker issue for a content exactly when the
\* content-replace fix changes that content: the fix changes every content
\* that is flagged, and it changes no content that is not.
C38_DetectionAndFixAgree ==
  /\ \A k \in 1..Len(files) :
       markerRegex(contents[k]) <=> contentReplace(contents[k]) # contents[k]
  /\ \A w \in Writes("content-replace") :
       io.log[w].content # io.log[w].read

\* A content-replace fix has written the content it had read.
FixWroteTheSameContent ==
  \E w \in Writes("content-replace") :
    io.log[w].ok /\ io.log[w].content = io.log[w].read

\* A content is not flagged while the fix would change it.
UnflaggedContentTheFixWouldChange ==
  \E k \in 1..Len(files) :
    ~markerRegex(contents[k]) /\ contentReplace(contents[k]) # contents[k]

----------------------------------------------------------------------------
(* A scan after the fixes of a scan.                                       *)

\* The issues a scan finds in the stores that applyFixes leaves behind.
IssuesAfter(st) ==
  (IF settings.enableVaultFolderSettingsCheck
     THEN SettingsIssues(st.configDir, config) ELSE <<>>)
  \o Scan(st.files, st.contents, Len(st.files))

\* C39: after a scan all of whose fixes were selected and applied without
\* an error, a scan that follows at once, nothing else having changed,
\* finds no issue.
C39_RescanFindsNothing ==
  [][(/\ vcm.open /\ vcm.confirming /\ vcm' = NoVcm
      /\ Len(vcm.selectedIssues) = Len(vcm.issues)
      /\ \A e \in 1..Len(io'.log) : io'.log[e].ok)
     => IssuesAfter(ApplyFixes(ApplyState, vcm.issues, vcm.selectedIssues)) = <<>>]_vars

\* Every settings fix of a scan was written, and the settings checks of
\* the next scan raise an issue again.
SettingsIssueSurvivesItsFix ==
  /\ io.log # <<>>
  /\ \A e \in 1..Len(io.log) : io.log[e].ok
  /\ \E e \in 1..Len(io.log) : io.log[e].op = "write"
  /\ settings.enableVaultFolderSettingsCheck
  /\ SettingsIssues(configDir, config) # <<>>

----------------------------------------------------------------------------
(* The destinations of the namespace fixes of one scan.                    *)

NamespaceIssuesShown == SelectSeq(vcm.issues, LAMBDA i : i.type = "Namespace")

\* C40: within one scan no two Namespace issues propose the same
\* destination path, no destination is the path of another file of the
\* vault, and the final name segment of every destination is not empty.
C40_NamespaceDestinationsSafe ==
  vcm.open =>
    LET ns == NamespaceIssuesShown
    IN /\ \A a, b \in 1..Len(ns) :
            a # b => ns[a].fixData.newPath # ns[b].fixData.newPath
       /\ \A a \in 1..Len(ns) :
            ~\E k \in 1..Len(files) :
               k # ns[a].file /\ files[k].path = ns[a].fixData.newPath
       /\ \A a \in 1..Len(ns) : finalName(ns[a].fixData.originalName) # <<>>

\* One scan proposes the same destination for two files.
TwoFilesOneDestination ==
  /\ vcm.open
  /\ \E a, b \in 1..Len(NamespaceIssuesShown) :
       /\ a # b
       /\ NamespaceIssuesShown[a].fixData.newPath
            = NamespaceIssuesShown[b].fixData.newPath

\* One scan proposes a destination that is the path of another file.
DestinationOccupied ==
  /\ vcm.open
  /\ \E a \in 1..Len(NamespaceIssuesShown) :
       \E k \in 1..Len(files) :
         /\ k # NamespaceIssuesShown[a].file
         /\ files[k].path = NamespaceIssuesShown[a].fixData.newPath

====
